---- MODULE Spec2Model ----
(***************************************************************************)
(* Model lifecycle manager of the recipe schema lab                        *)
(* (tools/recipe_schema_lab): the /retrain_model and /run_metrics request  *)
(* handlers, the stage subprocesses they run, the run-history file, and    *)
(* the live predictor that serves /predict on other request threads.       *)
(*                                                                         *)
(* Files are modelled by their content: a model artifact is the number of  *)
(* the training run that wrote it (0 is the artifact the server started    *)
(* with), NoFile is a path that does not exist.  Metric values are the     *)
(* source's floats times 100 (0.88 is 88).                                 *)
(*                                                                         *)
(* A handler thread blocks inside subprocess.run while a stage runs; its   *)
(* pc names the stage it is blocked in.  One action is "the stage process  *)
(* does its work and exits, and the handler runs on to its next blocking   *)
(* call or to its response".                                               *)
(***************************************************************************)
EXTENDS Integers, Sequences, FiniteSets, TLC

\* ---------------------------------------------------------------- bounds
\* Requests (retrain or metrics) one behaviour may start.
MaxRuns == 2
\* Regression fixtures in the directory given to regression_metrics.py.
MaxFixtures == 2
\* Lines of one document and rows of one line file of a dataset.
MaxRows == 2
\* Lines of one document given to run_predictions or Predictor.predict.
MaxDocLines == 3
\* the rows of a list given to _assemble_app_recipe
MaxRecipeLines == 5
\* Cases saved to the dataset before the training run.
MaxCases == 2

\* ------------------------------------------------------ program constants
\* lab_handler.py:83
METRICS_HISTORY_MAX == 120
\* lab_handler.py:152 / evaluate_line_classifier.py:93   (0.88)
MacroF1Min == 88
\* lab_handler.py:153 / evaluate_line_classifier.py:94   (0.85)
NoteRecallMin == 85
\* lab_handler.py:154 / evaluate_line_classifier.py:95   (0.08)
ConfusionMax == 8
\* lab_handler.py:159 / regression_metrics.py:148        (0.05)
NoteLeakageMax == 5
\* lab_handler.py:160 / regression_metrics.py:148        (0.08)
SwapMax == 8

\* A path that does not exist / a Python None / a stage that did not run.
NoFile == 0 - 1
NotRun == 0 - 1

\* Request threads of ThreadingHTTPServer that serve lifecycle requests.
Handlers == {"h1", "h2"}
\* The handler threads used when lifecycle requests arrive one at a time.
SeqHandlers == {"h1"}

\* Line lists posted to /predict.
PredictDocs == {<<"l0">>, <<"l0", "l1">>}

VARIABLES
    artifactModel,   \* ARTIFACT_MODEL  (artifacts/line_classifier.pkl)
    artifactSplit,   \* ARTIFACT_SPLIT  (artifacts/split.json)
    bundle,          \* BUNDLED_MODEL_OUT directory: payload and JSON mirror
    historyFile,     \* METRICS_HISTORY_PATH
    live,            \* PREDICTOR.model
    pc,              \* per handler: "idle" or the stage it is blocked in
    hung,            \* per handler: its stage subprocess will never exit
    kind,            \* per handler: "none" | "metrics" | "retrain"
    req,             \* per handler: what the request's dataset gives
    backupModel,     \* per handler: content of backup_model_path, or NoFile
    backupSplit,     \* per handler: content of backup_split_path, or NoFile
    metrics,         \* per handler: return codes and reports of the pipeline
    resp,            \* per handler: the response of its last finished run
    runId,           \* per handler: number of its current / last run
    pre,             \* history variable: the files and live model at run start
    stages,          \* history variable: stages launched by the run, in order
    appends,         \* history variable: _append_metrics_history calls of the run
    allRuns,         \* history variable: every entry ever appended, in order
    rejected,        \* history variable: models that failed the gate or the export
    runCount,        \* runs started so far
    runsLeft,        \* runs the behaviour may still start
    ppc,             \* predict thread: "idle" | "running"
    plines,          \* predict thread: the lines of its request
    pused,           \* predict thread: per classified line, the model object used
    tracker,         \* run_predictions / Predictor.predict: the pass over one document
    assembler,       \* _assemble_app_recipe: the pass over one list of rows
    validation,      \* validate_dataset: the dataset on disk and the result
    harness,         \* regression_metrics.main: fixtures scored and exit status
    dataset,         \* the lines directory, the cases saved to it and one training run
    appending        \* per thread: its call of _append_metrics_history

vars == <<artifactModel, artifactSplit, bundle, historyFile, live, pc, hung, kind,
          req, backupModel, backupSplit, metrics, resp, runId, pre, stages,
          appends, allRuns, rejected, runCount, runsLeft, ppc, plines, pused,
          tracker, assembler, validation, harness, dataset, appending>>

diskVars == <<artifactModel, artifactSplit, bundle>>
predictVars == <<ppc, plines, pused>>
libraryVars == <<tracker, assembler, validation, harness, dataset, appending>>

\* ------------------------------------------------------------- reports

NoReport ==
    [present |-> FALSE, macro_f1 |-> 0, macro_f1_present_labels |-> 0,
     note_recall |-> 0, note_support |-> 0,
     ingredient_step_confusion_rate |-> 0]

NoRegReport ==
    [present |-> FALSE, note_leakage_rate |-> 0, ingredient_step_swap_rate |-> 0]

\* compute_metrics: macro_f1 averages all six labels (an absent label counts
\* 0), macro_f1_present_labels only the labels with support.  The reports
\* drawn have the five other labels present.
EvalReports ==
    { [present |-> TRUE,
       macro_f1 |-> IF s > 0 THEN m ELSE (m * 5) \div 6,
       macro_f1_present_labels |-> m,
       note_recall |-> IF s > 0 THEN r ELSE 0,
       note_support |-> s,
       ingredient_step_confusion_rate |-> c] :
        m \in {87, 88}, r \in {84, 85}, s \in {0, 1}, c \in {8, 9} }

RegReports ==
    [present : {TRUE}, note_leakage_rate : {5, 6},
     ingredient_step_swap_rate : {8, 9}]

EmptyMetrics ==
    [evaluate_rc |-> NotRun, fixed_holdout_evaluate_rc |-> NotRun,
     regression_rc |-> NotRun, eval |-> NoReport, reg |-> NoRegReport]

\* evaluate_line_classifier.py main: exit status from the three thresholds.
EvaluateExitCode(report, skip_threshold_check) ==
    LET macro_ok == report.macro_f1_present_labels >= MacroF1Min
        note_recall_ok == IF report.note_support > 0
                          THEN report.note_recall >= NoteRecallMin
                          ELSE TRUE
        confusion_ok == report.ingredient_step_confusion_rate <= ConfusionMax
    IN  IF skip_threshold_check THEN 0
        ELSE IF macro_ok /\ note_recall_ok /\ confusion_ok THEN 0 ELSE 1

\* regression_metrics.py main: "Guardrails for plan acceptance".
RegressionExitCode(report) ==
    IF report.note_leakage_rate <= NoteLeakageMax
       /\ report.ingredient_step_swap_rate <= SwapMax
    THEN 0 ELSE 1

\* _metrics_thresholds
MetricsThresholds(eval_metrics, regression_metrics) ==
    LET macro_f1 == eval_metrics.present
                    /\ eval_metrics.macro_f1_present_labels >= MacroF1Min
        note_recall == eval_metrics.present
                       /\ (IF eval_metrics.note_support > 0
                           THEN eval_metrics.note_recall >= NoteRecallMin
                           ELSE TRUE)
        confusion == eval_metrics.present
                     /\ eval_metrics.ingredient_step_confusion_rate <= ConfusionMax
        note_leakage == regression_metrics.present
                        /\ regression_metrics.note_leakage_rate <= NoteLeakageMax
        swap == regression_metrics.present
                /\ regression_metrics.ingredient_step_swap_rate <= SwapMax
    IN  [macro_f1 |-> macro_f1,
         note_recall |-> note_recall,
         ingredient_step_confusion |-> confusion,
         regression_note_leakage |-> note_leakage,
         regression_swap |-> swap,
         overall |-> macro_f1 /\ note_recall /\ confusion /\ note_leakage /\ swap]

\* A plausible slip: the regression half of the gate left out of "ok".
PipelineOk_EvalOnly(m) ==
    /\ m.evaluate_rc = 0
    /\ m.fixed_holdout_evaluate_rc = 0

\* _run_metrics_pipeline: ok
PipelineOk(m) ==
    /\ m.evaluate_rc = 0
    /\ m.regression_rc = 0
    /\ m.fixed_holdout_evaluate_rc = 0
    /\ MetricsThresholds(m.eval, m.reg).overall

\* ------------------------------------------------------------- history

\* _load_metrics_history: a missing file is an empty list.
LoadMetricsHistory(file) ==
    IF file.exists THEN file.runs ELSE <<>>

\* A plausible slip: runs[:METRICS_HISTORY_MAX] keeps the oldest entries.
BoundedRuns_KeepOldest(runs) ==
    IF Len(runs) > METRICS_HISTORY_MAX
    THEN SubSeq(runs, 1, METRICS_HISTORY_MAX)
    ELSE runs

\* _save_metrics_history: runs[-METRICS_HISTORY_MAX:]
BoundedRuns(runs) ==
    IF Len(runs) > METRICS_HISTORY_MAX
    THEN SubSeq(runs, Len(runs) - METRICS_HISTORY_MAX + 1, Len(runs))
    ELSE runs

SaveMetricsHistory(runs) ==
    [exists |-> TRUE, runs |-> BoundedRuns(runs)]

\* _append_metrics_history: load, append, save.
AppendMetricsHistory(file, entry) ==
    SaveMetricsHistory(Append(LoadMetricsHistory(file), entry))

RunEntry(id, action, success) ==
    [id |-> id, action |-> action, success |-> success]

\* ------------------------------------------------------------ responses

NoResp ==
    [sent |-> FALSE, ok |-> FALSE, error |-> "", validate_rc |-> NotRun,
     train_rc |-> NotRun, export_rc |-> NotRun, gate |-> "none",
     reloaded |-> FALSE, reload_error |-> FALSE,
     rolled_back |-> FALSE, rollback_error |-> FALSE]

\* The payload of the outer "except Exception" of a handler.
ErrorResp == [NoResp EXCEPT !.sent = TRUE, !.error = "exception"]

\* ------------------------------------------------- rollback and reload

\* A plausible slip: the split is restored but the model copy is forgotten.
RestoreBackups_SplitOnly(bm, bs, am, as, fault) ==
    [model |-> am,
     split |-> IF bs # NoFile THEN bs ELSE as,
     rolled_back |-> bm # NoFile,
     rollback_error |-> FALSE]

\* restore_backups (closure of _retrain_model).  bm, bs: the backups;
\* am, as: the artifacts; fault: the shutil.copy2 that raises, if any.
RestoreBackups(bm, bs, am, as, fault) ==
    IF bm # NoFile /\ fault = "model_copy"
    THEN [model |-> am, split |-> as,
          rolled_back |-> FALSE, rollback_error |-> TRUE]
    ELSE LET m1 == IF bm # NoFile THEN bm ELSE am
         IN  IF bs # NoFile /\ fault = "split_copy"
             THEN [model |-> m1, split |-> as,
                   rolled_back |-> FALSE, rollback_error |-> TRUE]
             ELSE [model |-> m1,
                   split |-> IF bs # NoFile THEN bs ELSE as,
                   rolled_back |-> bm # NoFile,
                   rollback_error |-> FALSE]

RestoreFaults(h) ==
    {"none"} \cup (IF backupModel[h] # NoFile THEN {"model_copy"} ELSE {})
             \cup (IF backupSplit[h] # NoFile THEN {"split_copy"} ELSE {})

\* Predictor.reload: load_pickle builds the new classifier object, then one
\* attribute assignment swaps the reference.  raises: the load raised.
Reload(current, am, raises) ==
    IF am = NoFile \/ raises
    THEN [model |-> current, reloaded |-> FALSE, reload_error |-> TRUE]
    ELSE [model |-> am, reloaded |-> TRUE, reload_error |-> FALSE]

\* ------------------------------------------------------------- stages

\* train_line_classifier.py main, by where it stops: "ok" writes the model
\* (save_pickle) and then split.json and exits 0; "fail_before_write" is a
\* SystemExit before any output; "fail_after_model" dies between
\* save_pickle and the end of split_path.write_text.
TrainOutcomes == {"ok", "fail_before_write", "fail_after_model"}

TrainRun(outcome, am, as, new) ==
    [model |-> IF outcome \in {"ok", "fail_after_model"} THEN new ELSE am,
     split |-> IF outcome = "ok" THEN new ELSE as,
     rc |-> IF outcome = "ok" THEN 0 ELSE 1]

\* export_coreml.py main, by where it stops: "ok" copies the payload, writes
\* the JSON mirror and the manifest and exits 0; "fail_before_write" exits
\* before shutil.copy2; "fail_after_payload" dies after shutil.copy2 and
\* before the JSON mirror is written.
ExportOutcomes == {"ok", "fail_before_write", "fail_after_payload"}

ExportRun(outcome, am, b) ==
    [bundle |-> [payload |-> IF outcome = "fail_before_write" THEN b.payload ELSE am,
                 json |-> IF outcome = "ok" THEN am ELSE b.json],
     rc |-> IF outcome = "ok" THEN 0 ELSE 1]

\* A plausible slip: a failed validation is not noticed.
ValidateFailed_Negative(rc) == rc < 0

\* _retrain_model: "if validate_proc.returncode != 0"
ValidateFailed(rc) == rc # 0

\* A plausible slip: the train stage's status is not looked at.
TrainFailed_Never(rc) == FALSE

\* _retrain_model: "if train_proc.returncode != 0"
TrainFailed(rc) == rc # 0

Snapshot ==
    [model |-> artifactModel, split |-> artifactSplit, bundle |-> bundle,
     live |-> live]

\* What every action that starts a run of kind k on handler h records.
BeginRun(h, k) ==
    /\ pc[h] = "idle"
    /\ runsLeft > 0
    /\ runsLeft' = runsLeft - 1
    /\ UNCHANGED rejected
    /\ runCount' = runCount + 1
    /\ runId' = [runId EXCEPT ![h] = runCount + 1]
    /\ kind' = [kind EXCEPT ![h] = k]
    /\ pre' = [pre EXCEPT ![h] = Snapshot]
    /\ appends' = [appends EXCEPT ![h] = 0]
    /\ metrics' = [metrics EXCEPT ![h] = EmptyMetrics]

\* What every action that records a run and answers the request does:
\* _append_metrics_history(run_entry), then _json_response.
Answer(h, success, response) ==
    LET entry == RunEntry(runId[h], kind[h], success)
    IN  /\ historyFile' = AppendMetricsHistory(historyFile, entry)
        /\ allRuns' = Append(allRuns, entry)
        /\ appends' = [appends EXCEPT ![h] = @ + 1]
        /\ resp' = [resp EXCEPT ![h] = response]
        /\ pc' = [pc EXCEPT ![h] = "idle"]
        /\ metrics' = [metrics EXCEPT ![h] = EmptyMetrics]

\* ---------------------------------------------------- /retrain_model

\* _retrain_model up to the validate subprocess: the backups are taken.
RetrainStart(h) ==
    /\ BeginRun(h, "retrain")
    /\ \E avail \in BOOLEAN : req' = [req EXCEPT ![h] = [fixed_holdout_available |-> avail]]
    /\ backupModel' = [backupModel EXCEPT ![h] = artifactModel]
    /\ backupSplit' = [backupSplit EXCEPT ![h] = artifactSplit]
    /\ pc' = [pc EXCEPT ![h] = "validate"]
    /\ stages' = [stages EXCEPT ![h] = <<"validate">>]
    /\ resp' = [resp EXCEPT ![h] = NoResp]
    /\ UNCHANGED <<diskVars, historyFile, live, hung, allRuns, predictVars, libraryVars>>

\* _retrain_model when shutil.copy2 of the backup (or LOCAL_TMP_DIR.mkdir)
\* raises: the outer "except Exception" answers {"error": ...}.
RetrainStartRaises(h) ==
    /\ BeginRun(h, "retrain")
    /\ stages' = [stages EXCEPT ![h] = <<>>]
    /\ resp' = [resp EXCEPT ![h] = ErrorResp]
    /\ UNCHANGED <<diskVars, historyFile, live, pc, hung, req, backupModel,
                   backupSplit, allRuns, predictVars, libraryVars>>

\* subprocess.run has no timeout: a stage process that never exits.
StageHangs(h) ==
    /\ pc[h] # "idle"
    /\ ~hung[h]
    /\ hung' = [hung EXCEPT ![h] = TRUE]
    /\ UNCHANGED <<diskVars, historyFile, live, pc, kind, req, backupModel,
                   backupSplit, metrics, resp, runId, pre, stages, appends,
                   allRuns, runCount, runsLeft, rejected, predictVars,
                   libraryVars>>

Blocked(h, stage) == pc[h] = stage /\ ~hung[h]

Launch(h, stage) ==
    /\ pc' = [pc EXCEPT ![h] = stage]
    /\ stages' = [stages EXCEPT ![h] = Append(@, stage)]

\* validate exits; on failure the run is recorded and answered, otherwise
\* train is launched.
ValidateExit(h) ==
    /\ Blocked(h, "validate")
    /\ \E rc \in {0, 1} :
        IF ValidateFailed(rc)
        THEN /\ Answer(h, FALSE, [NoResp EXCEPT !.sent = TRUE,
                                   !.error = "Dataset validation failed",
                                   !.validate_rc = rc])
             /\ UNCHANGED <<diskVars, live, stages>>
        ELSE /\ resp' = [resp EXCEPT ![h].validate_rc = rc]
             /\ Launch(h, "train")
             /\ UNCHANGED <<diskVars, live, historyFile, allRuns, appends, metrics>>
    /\ UNCHANGED <<hung, kind, req, backupModel, backupSplit, runId, pre,
                   runCount, runsLeft, rejected, predictVars,
                   libraryVars>>

\* train exits; on failure the run is recorded and answered, otherwise
\* _run_metrics_pipeline launches evaluate.
TrainExit(h) ==
    /\ Blocked(h, "train")
    /\ \E outcome \in TrainOutcomes :
        LET t == TrainRun(outcome, artifactModel, artifactSplit, runId[h])
        IN  /\ artifactModel' = t.model
            /\ artifactSplit' = t.split
            /\ IF TrainFailed(t.rc)
               THEN /\ Answer(h, FALSE, [NoResp EXCEPT !.sent = TRUE,
                                          !.error = "Model training failed",
                                          !.validate_rc = resp[h].validate_rc,
                                          !.train_rc = t.rc])
                    /\ UNCHANGED stages
               ELSE /\ resp' = [resp EXCEPT ![h].train_rc = t.rc]
                    /\ Launch(h, "evaluate")
                    /\ UNCHANGED <<historyFile, allRuns, appends, metrics>>
    /\ UNCHANGED <<bundle, live, hung, kind, req, backupModel, backupSplit,
                   runId, pre, runCount, runsLeft, rejected, predictVars,
                   libraryVars>>

\* ------------------------------------------- _run_metrics_pipeline

\* evaluate exits: with a report and the status its thresholds give, or
\* with status 1 and no report (SystemExit "No evaluation rows found").
\* The handler then runs the fixed-holdout evaluation if the dataset has
\* holdout_ documents, else goes straight to regression.
EvaluateExit(h) ==
    /\ Blocked(h, "evaluate")
    /\ \E report \in EvalReports \cup {NoReport} :
        LET rc == IF report.present THEN EvaluateExitCode(report, FALSE) ELSE 1
        IN  metrics' = [metrics EXCEPT
                ![h].evaluate_rc = rc,
                ![h].eval = report,
                ![h].fixed_holdout_evaluate_rc =
                    IF req[h].fixed_holdout_available THEN NotRun ELSE 0]
    /\ IF req[h].fixed_holdout_available
       THEN Launch(h, "fixed_holdout")
       ELSE Launch(h, "regression")
    /\ UNCHANGED <<diskVars, historyFile, live, hung, kind, req, backupModel,
                   backupSplit, resp, runId, pre, appends, allRuns, runCount,
                   runsLeft, rejected, predictVars,
                   libraryVars>>

\* the fixed-holdout evaluation (--skip-threshold-check) exits; regression
\* is launched whatever its status.
FixedHoldoutExit(h) ==
    /\ Blocked(h, "fixed_holdout")
    /\ \E report \in {r \in EvalReports : r.note_support > 0} \cup {NoReport} :
        LET rc == IF report.present THEN EvaluateExitCode(report, TRUE) ELSE 1
        IN  metrics' = [metrics EXCEPT ![h].fixed_holdout_evaluate_rc = rc]
    /\ Launch(h, "regression")
    /\ UNCHANGED <<diskVars, historyFile, live, hung, kind, req, backupModel,
                   backupSplit, resp, runId, pre, appends, allRuns, runCount,
                   runsLeft, rejected, predictVars,
                   libraryVars>>

\* The pipeline's reports once regression has exited with `report` (or with
\* status 1 and no report: SystemExit "No regression fixtures found").
WithRegression(m, report) ==
    [m EXCEPT !.regression_rc = IF report.present THEN RegressionExitCode(report) ELSE 1,
              !.reg = report]

\* ------------------------------------------------------- /run_metrics

MetricsStart(h) ==
    /\ BeginRun(h, "metrics")
    /\ \E avail \in BOOLEAN : req' = [req EXCEPT ![h] = [fixed_holdout_available |-> avail]]
    /\ pc' = [pc EXCEPT ![h] = "evaluate"]
    /\ stages' = [stages EXCEPT ![h] = <<"evaluate">>]
    /\ resp' = [resp EXCEPT ![h] = NoResp]
    /\ UNCHANGED <<diskVars, historyFile, live, hung, backupModel, backupSplit,
                   allRuns, predictVars, libraryVars>>

\* _run_metrics when LOCAL_TMP_DIR.mkdir (or the request body) raises: the
\* outer "except Exception" answers {"error": ...}.
MetricsStartRaises(h) ==
    /\ BeginRun(h, "metrics")
    /\ stages' = [stages EXCEPT ![h] = <<>>]
    /\ resp' = [resp EXCEPT ![h] = ErrorResp]
    /\ UNCHANGED <<diskVars, historyFile, live, pc, hung, req, backupModel,
                   backupSplit, allRuns, predictVars, libraryVars>>

\* regression exits in a /run_metrics run: the run is recorded and answered.
MetricsRegressionExit(h) ==
    /\ Blocked(h, "regression")
    /\ kind[h] = "metrics"
    /\ \E report \in RegReports \cup {NoRegReport} :
        LET m == WithRegression(metrics[h], report)
        IN  Answer(h, PipelineOk(m), [NoResp EXCEPT !.sent = TRUE,
                                       !.ok = PipelineOk(m),
                                       !.gate = IF PipelineOk(m) THEN "pass" ELSE "fail"])
    /\ UNCHANGED <<diskVars, live, hung, kind, req, backupModel, backupSplit,
                   runId, pre, stages, runCount, runsLeft, rejected, predictVars,
                   libraryVars>>

\* ------------------------------------------ /retrain_model, after train

\* A plausible slip: only the gate's failure triggers the rollback.
NeedsRestore_GateOnly(metricsOk, export_rc) == ~metricsOk

\* _retrain_model: the branches that call restore_backups (the gate failed,
\* or it passed and export exited nonzero).
NeedsRestore(metricsOk, export_rc) == ~metricsOk \/ export_rc # 0

\* A plausible slip: PREDICTOR.reload() called whatever restore_backups
\* returned.
ReloadsAfter_Always(restore, rolled_back) == TRUE

\* _retrain_model: PREDICTOR.reload() is called after an export that exited
\* 0, and after restore_backups if it returned true.
ReloadsAfter(restore, rolled_back) == ~restore \/ rolled_back

\* _retrain_model from "if metrics["ok"]" to the response, once export_rc is
\* known: reload after a good export, else restore_backups and, if it
\* restored, reload; then the history entry and the response.
RetrainFinish(h, metricsOk, export_rc, fault, raises) ==
    LET restore == NeedsRestore(metricsOk, export_rc)
        rb == IF restore
              THEN RestoreBackups(backupModel[h], backupSplit[h],
                                  artifactModel, artifactSplit, fault)
              ELSE [model |-> artifactModel, split |-> artifactSplit,
                    rolled_back |-> FALSE, rollback_error |-> FALSE]
        rl == IF ReloadsAfter(restore, rb.rolled_back)
              THEN Reload(live, rb.model, raises)
              ELSE [model |-> live, reloaded |-> FALSE, reload_error |-> FALSE]
        success == /\ resp[h].validate_rc = 0
                   /\ resp[h].train_rc = 0
                   /\ export_rc = 0
                   /\ metricsOk
                   /\ rl.reloaded
                   /\ ~rb.rolled_back
    IN  /\ artifactModel' = rb.model
        /\ artifactSplit' = rb.split
        /\ live' = rl.model
        /\ rejected' = IF restore THEN rejected \cup {runId[h]} ELSE rejected
        /\ Answer(h, success, [NoResp EXCEPT !.sent = TRUE,
                               !.ok = success,
                               !.validate_rc = resp[h].validate_rc,
                               !.train_rc = resp[h].train_rc,
                               !.export_rc = export_rc,
                               !.gate = IF metricsOk THEN "pass" ELSE "fail",
                               !.reloaded = rl.reloaded,
                               !.reload_error = rl.reload_error,
                               !.rolled_back = rb.rolled_back,
                               !.rollback_error = rb.rollback_error])

\* regression exits in a /retrain_model run and the gate passes: export is
\* launched.
RetrainGatePass(h) ==
    /\ Blocked(h, "regression")
    /\ kind[h] = "retrain"
    /\ \E report \in RegReports \cup {NoRegReport} :
        LET m == WithRegression(metrics[h], report)
        IN  /\ PipelineOk(m)
            /\ metrics' = [metrics EXCEPT ![h] = m]
    /\ Launch(h, "export")
    /\ UNCHANGED <<diskVars, historyFile, live, hung, kind, req, backupModel,
                   backupSplit, resp, runId, pre, appends, allRuns, runCount,
                   runsLeft, rejected, predictVars,
                   libraryVars>>

\* regression exits in a /retrain_model run and the gate fails: export is
\* skipped (a CompletedProcess with returncode 0 stands in for it).
RetrainGateFail(h) ==
    /\ Blocked(h, "regression")
    /\ kind[h] = "retrain"
    /\ \E report \in RegReports \cup {NoRegReport} :
        LET m == WithRegression(metrics[h], report)
        IN  /\ ~PipelineOk(m)
            /\ \E fault \in RestoreFaults(h), raises \in BOOLEAN :
                    RetrainFinish(h, FALSE, 0, fault, raises)
    /\ UNCHANGED <<bundle, hung, kind, req, backupModel, backupSplit, runId, pre,
                   stages, runCount, runsLeft, predictVars, libraryVars>>

\* export exits.
ExportExit(h) ==
    /\ Blocked(h, "export")
    /\ \E outcome \in ExportOutcomes :
        LET e == ExportRun(outcome, artifactModel, bundle)
        IN  /\ bundle' = e.bundle
            /\ \E fault \in RestoreFaults(h), raises \in BOOLEAN :
                    RetrainFinish(h, TRUE, e.rc, fault, raises)
    /\ UNCHANGED <<hung, kind, req, backupModel, backupSplit, runId, pre, stages,
                   runCount, runsLeft, predictVars, libraryVars>>

\* ------------------------------------------- _append_metrics_history
\* The call that ends every recorded run, step by step: the file is read,
\* the entry is appended to the list read, the file is opened for writing
\* (which empties it) and the list is written.

NotAppending == [pc |-> "idle", entry |-> RunEntry(0, "none", FALSE), runs |-> <<>>]

AppendingIdle == [h \in Handlers |-> NotAppending]

\* What the steps of _append_metrics_history leave alone.
appendFrame == <<artifactModel, artifactSplit, bundle, live, pc, hung, req,
                 backupModel, backupSplit, metrics, resp, pre, stages, appends,
                 rejected, predictVars, tracker, assembler, validation, harness,
                 dataset>>

\* A file opened by write_text and not yet written: _read_json_file gets
\* text that json.loads rejects and returns None, as for an empty list.
OpenedForWriting == [exists |-> TRUE, runs |-> <<>>]

\* A /run_metrics or /retrain_model run on thread h has built its
\* run_entry and calls _append_metrics_history.
AppendCall(h) ==
    /\ appending[h].pc = "idle"
    /\ runsLeft > 0
    /\ runsLeft' = runsLeft - 1
    /\ runCount' = runCount + 1
    /\ runId' = [runId EXCEPT ![h] = runCount + 1]
    /\ \E action \in {"metrics", "retrain"}, success \in BOOLEAN :
          /\ kind' = [kind EXCEPT ![h] = action]
          /\ appending' = [appending EXCEPT ![h] =
                 [pc |-> "load", entry |-> RunEntry(runCount + 1, action, success),
                  runs |-> <<>>]]
    /\ UNCHANGED <<historyFile, allRuns, appendFrame>>

\* runs = _load_metrics_history(); runs.append(entry)
AppendLoad(h) ==
    /\ appending[h].pc = "load"
    /\ appending' = [appending EXCEPT ![h].pc = "open",
                        ![h].runs = Append(LoadMetricsHistory(historyFile),
                                           appending[h].entry)]
    /\ UNCHANGED <<historyFile, allRuns, runCount, runsLeft, runId, kind, appendFrame>>

\* _save_metrics_history: write_text opens METRICS_HISTORY_PATH with mode "w".
AppendOpen(h) ==
    /\ appending[h].pc = "open"
    /\ historyFile' = OpenedForWriting
    /\ appending' = [appending EXCEPT ![h].pc = "write"]
    /\ UNCHANGED <<allRuns, runCount, runsLeft, runId, kind, appendFrame>>

\* _save_metrics_history: the bounded list is written and the file closed;
\* _append_metrics_history returns.
AppendWrite(h) ==
    /\ appending[h].pc = "write"
    /\ historyFile' = SaveMetricsHistory(appending[h].runs)
    /\ allRuns' = Append(allRuns, appending[h].entry)
    /\ appending' = [appending EXCEPT ![h] = [NotAppending EXCEPT
                        !.entry = appending[h].entry]]
    /\ UNCHANGED <<runCount, runsLeft, runId, kind, appendFrame>>

\* ------------------------------------------------------------ /predict

lifecycleVars == <<artifactModel, artifactSplit, bundle, historyFile, live, pc,
                   hung, kind, req, backupModel, backupSplit, metrics, resp,
                   runId, pre, stages, appends, allRuns, rejected, runCount,
                   runsLeft>>

\* _predict up to Predictor.predict's loop.
PredictStart ==
    /\ ppc = "idle"
    /\ \E doc \in PredictDocs : plines' = doc
    /\ pused' = <<>>
    /\ ppc' = "running"
    /\ UNCHANGED <<lifecycleVars, libraryVars>>

\* One iteration of Predictor.predict's loop: self.model is read anew and
\* classifies the next line.
PredictLine ==
    /\ ppc = "running"
    /\ Len(pused) < Len(plines)
    /\ pused' = Append(pused, live)
    /\ UNCHANGED <<ppc, plines>>
    /\ UNCHANGED <<lifecycleVars, libraryVars>>

\* The loop is over: the results are assembled and sent.
PredictFinish ==
    /\ ppc = "running"
    /\ Len(pused) = Len(plines)
    /\ ppc' = "idle"
    /\ plines' = <<>>
    /\ pused' = <<>>
    /\ UNCHANGED <<lifecycleVars, libraryVars>>

\* ------------------------------------------------------------ strings
\* Python's str operations, on TLA+ strings (ASCII letters, digits, space
\* and punctuation; the only whitespace is the space).

CharAt(s, i) == SubSeq(s, i, i)

DigitChars == {"0", "1", "2", "3", "4", "5", "6", "7", "8", "9"}

UpperChars == {"A", "B", "C", "D", "E", "F", "G", "H", "I", "J", "K", "L", "M",
               "N", "O", "P", "Q", "R", "S", "T", "U", "V", "W", "X", "Y", "Z"}

LowerChars == {"a", "b", "c", "d", "e", "f", "g", "h", "i", "j", "k", "l", "m",
               "n", "o", "p", "q", "r", "s", "t", "u", "v", "w", "x", "y", "z"}

\* str.lower on one character.
LowerChar(c) ==
    CASE c = "A" -> "a" [] c = "B" -> "b" [] c = "C" -> "c" [] c = "D" -> "d"
      [] c = "E" -> "e" [] c = "F" -> "f" [] c = "G" -> "g" [] c = "H" -> "h"
      [] c = "I" -> "i" [] c = "J" -> "j" [] c = "K" -> "k" [] c = "L" -> "l"
      [] c = "M" -> "m" [] c = "N" -> "n" [] c = "O" -> "o" [] c = "P" -> "p"
      [] c = "Q" -> "q" [] c = "R" -> "r" [] c = "S" -> "s" [] c = "T" -> "t"
      [] c = "U" -> "u" [] c = "V" -> "v" [] c = "W" -> "w" [] c = "X" -> "x"
      [] c = "Y" -> "y" [] c = "Z" -> "z" [] OTHER -> c

\* str.upper on one character.
UpperChar(c) ==
    CASE c = "a" -> "A" [] c = "b" -> "B" [] c = "c" -> "C" [] c = "d" -> "D"
      [] c = "e" -> "E" [] c = "f" -> "F" [] c = "g" -> "G" [] c = "h" -> "H"
      [] c = "i" -> "I" [] c = "j" -> "J" [] c = "k" -> "K" [] c = "l" -> "L"
      [] c = "m" -> "M" [] c = "n" -> "N" [] c = "o" -> "O" [] c = "p" -> "P"
      [] c = "q" -> "Q" [] c = "r" -> "R" [] c = "s" -> "S" [] c = "t" -> "T"
      [] c = "u" -> "U" [] c = "v" -> "V" [] c = "w" -> "W" [] c = "x" -> "X"
      [] c = "y" -> "Y" [] c = "z" -> "Z" [] OTHER -> c

IsAlphaChar(c) == c \in UpperChars \cup LowerChars

\* str.lower
RECURSIVE LowerFrom(_, _, _)
LowerFrom(s, lo, hi) ==
    IF lo > hi THEN ""
    ELSE IF lo = hi THEN LowerChar(CharAt(s, lo))
    ELSE LowerFrom(s, lo, (lo + hi) \div 2) \o LowerFrom(s, (lo + hi) \div 2 + 1, hi)

Lower(s) == LowerFrom(s, 1, Len(s))

\* str.title: the first letter of every run of letters in upper case, the
\* other letters in lower case.
RECURSIVE TitleFrom(_, _, _)
TitleFrom(s, lo, hi) ==
    IF lo > hi THEN ""
    ELSE IF lo = hi
         THEN IF lo > 1 /\ IsAlphaChar(CharAt(s, lo - 1)) THEN LowerChar(CharAt(s, lo))
              ELSE UpperChar(CharAt(s, lo))
    ELSE TitleFrom(s, lo, (lo + hi) \div 2) \o TitleFrom(s, (lo + hi) \div 2 + 1, hi)

Title(s) == TitleFrom(s, 1, Len(s))

DropChars(s, n) == SubSeq(s, n + 1, Len(s))

\* The length of the longest prefix of s made of characters of `chars`.
LeadingRun(s, chars) ==
    CHOOSE n \in 0..Len(s) : /\ \A i \in 1..n : CharAt(s, i) \in chars
                             /\ n = Len(s) \/ CharAt(s, n + 1) \notin chars

\* The length of the longest suffix of s made of characters of `chars`.
TrailingRun(s, chars) ==
    CHOOSE n \in 0..Len(s) : /\ \A i \in (Len(s) - n + 1)..Len(s) : CharAt(s, i) \in chars
                             /\ n = Len(s) \/ CharAt(s, Len(s) - n) \notin chars

\* The length of the longest prefix, and suffix, of s with no character of
\* `chars`.
LeadingRunOutside(s, chars) ==
    CHOOSE n \in 0..Len(s) : /\ \A i \in 1..n : CharAt(s, i) \notin chars
                             /\ n = Len(s) \/ CharAt(s, n + 1) \in chars

TrailingRunOutside(s, chars) ==
    CHOOSE n \in 0..Len(s) : /\ \A i \in (Len(s) - n + 1)..Len(s) : CharAt(s, i) \notin chars
                             /\ n = Len(s) \/ CharAt(s, Len(s) - n) \in chars

\* str.lstrip / str.rstrip / str.strip
LStrip(s) == DropChars(s, LeadingRun(s, {" "}))

RStrip(s) == SubSeq(s, 1, Len(s) - TrailingRun(s, {" "}))

Strip(s) == RStrip(LStrip(s))

\* str.startswith / str.endswith / the "in" of two strings
StartsWith(s, prefix) ==
    Len(s) >= Len(prefix) /\ SubSeq(s, 1, Len(prefix)) = prefix

EndsWith(s, suffix) ==
    Len(s) >= Len(suffix) /\ SubSeq(s, Len(s) - Len(suffix) + 1, Len(s)) = suffix

Contains(s, part) ==
    \E i \in 1..(Len(s) - Len(part) + 1) : SubSeq(s, i, i + Len(part) - 1) = part

\* re.sub(r"\s+", " ", s): a blank after a blank goes.
RECURSIVE CollapseFrom(_, _, _)
CollapseFrom(s, lo, hi) ==
    IF lo > hi THEN ""
    ELSE IF lo = hi
         THEN IF lo > 1 /\ CharAt(s, lo) = " " /\ CharAt(s, lo - 1) = " " THEN ""
              ELSE CharAt(s, lo)
    ELSE CollapseFrom(s, lo, (lo + hi) \div 2) \o CollapseFrom(s, (lo + hi) \div 2 + 1, hi)

CollapseSpaces(s) == CollapseFrom(s, 1, Len(s))

\* The length of the first word of s.
WordLen(s) == LeadingRunOutside(s, {" "})

\* str.split(): the words of s.
RECURSIVE Words(_)
Words(s) ==
    LET t == LStrip(s)
    IN  IF t = "" THEN <<>>
        ELSE <<SubSeq(t, 1, WordLen(t))>> \o Words(DropChars(t, WordLen(t)))

\* ------------------------------------------------- rule_based_label

LABELS == {"title", "ingredient", "step", "note", "header", "junk"}

\* A confidence given in hundredths, in the unit of the model (1e-5).
Conf(hundredths) == hundredths * 1000

ACTION_PREFIXES ==
    {"add", "bake", "beat", "boil", "brown", "chop", "combine", "cook", "fold",
     "heat", "let", "marinate", "mash", "mix", "pat", "pour", "preheat",
     "refrigerate", "rest", "roast", "saute", "serve", "simmer", "spread",
     "stir", "toast", "toss", "whisk"}

NOTE_PREFIXES ==
    {"note", "notes", "tip", "tips", "chef's note", "variation", "variations",
     "storage"}

HEADER_KEYWORDS ==
    {"ingredients", "ingredient", "instructions", "instruction", "directions",
     "direction", "steps", "step", "method"}

INGREDIENT_HEADER_KEYWORDS ==
    {"ingredient", "ingredients", "for the ingredients", "what you'll need"}

STEP_HEADER_KEYWORDS ==
    {"instruction", "instructions", "direction", "directions", "step", "steps",
     "method", "preparation"}

INGREDIENT_HINTS == {"to taste", "for garnish", "optional", "divided", "melted"}

\* re.sub(r"^\d+[.):-]\s*", "", text)
DropNumberPrefix(s) ==
    LET k == LeadingRun(s, DigitChars)
    IN  IF k > 0 /\ CharAt(s, k + 1) \in {".", ")", ":", "-"}
        THEN LStrip(DropChars(s, k + 1))
        ELSE s

\* re.sub(r"^[bullets\-]+\s*", "", text), on ASCII text
DropBullets(s) ==
    LET k == LeadingRun(s, {"-"})
    IN  IF k > 0 THEN LStrip(DropChars(s, k)) ELSE s

normalize_for_features(text) == DropBullets(DropNumberPrefix(Lower(Strip(text))))

\* compact of rule_based_label
Compact(text) == Strip(CollapseSpaces(normalize_for_features(text)))

StartsWithAny(s, prefixes, tail) == \E p \in prefixes : StartsWith(s, p \o tail)

\* The rules of rule_based_label, each on its own, in the order of the source.
IsBlank(text) == Compact(text) = ""

IsTagLike(text) == StartsWith(Compact(text), "<") /\ EndsWith(Compact(text), ">")

IsHeaderKeyword(text) == Compact(text) \in HEADER_KEYWORDS

IsForTheHeader(text) ==
    StartsWith(Compact(text), "for the ") /\ EndsWith(Compact(text), ":")

ColonStem(text) == Strip(SubSeq(Compact(text), 1, Len(Compact(text)) - 1))

IsNoteColonHeader(text) ==
    EndsWith(Compact(text), ":") /\ StartsWithAny(ColonStem(text), NOTE_PREFIXES, "")

IsKeywordColonHeader(text) ==
    EndsWith(Compact(text), ":") /\ ColonStem(text) \in HEADER_KEYWORDS

IsShortColonHeader(text) ==
    EndsWith(Compact(text), ":") /\ Len(Words(Compact(text))) <= 5

IsNoteColonLine(text) == StartsWithAny(Compact(text), NOTE_PREFIXES, ":")

IsNoteLeadLine(text) == StartsWithAny(Compact(text), NOTE_PREFIXES, " ")

\* re.match(r"^[\d<fractions>/.\-]+\s+", compact)
IsQuantityLed_k(text) == LeadingRun(Compact(text), DigitChars \cup {"/", ".", "-"})

IsQuantityLed(text) ==
    IsQuantityLed_k(text) > 0 /\ CharAt(Compact(text), IsQuantityLed_k(text) + 1) = " "

\* re.match(r"^\d+\s*[x]\s+", compact)
IsTimesLed_k(text) == LeadingRun(Compact(text), DigitChars)

IsTimesLed_rest(text) == LStrip(DropChars(Compact(text), IsTimesLed_k(text)))

IsTimesLed(text) ==
    IsTimesLed_k(text) > 0 /\ StartsWith(IsTimesLed_rest(text), "x ")

IsActionLed(text) == StartsWithAny(Compact(text), ACTION_PREFIXES, " ")

IsLongLine(text) == Len(Words(Compact(text))) >= 8

HasIngredientHint(text) == \E hint \in INGREDIENT_HINTS : Contains(Compact(text), hint)

LooksLikeTitle_raw(text) == Strip(text)

LooksLikeTitle_words(text) == Words(Compact(text))

LooksLikeTitle(text) ==
    /\ Len(LooksLikeTitle_words(text)) >= 2
    /\ Len(LooksLikeTitle_words(text)) <= 6
    /\ ~Contains(LooksLikeTitle_raw(text), ":")
    /\ \A i \in 1..Len(LooksLikeTitle_raw(text)) : CharAt(LooksLikeTitle_raw(text), i) \notin DigitChars
    /\ LooksLikeTitle_raw(text) # "" /\ Head(LooksLikeTitle_raw(text)) \in UpperChars
    /\ LooksLikeTitle_raw(text) = Title(LooksLikeTitle_raw(text))

NoRule == [label |-> "", confidence |-> 0]

Rule(label, hundredths) == [label |-> label, confidence |-> Conf(hundredths)]

rule_based_label(text) ==
    IF IsBlank(text) THEN Rule("junk", 99)
    ELSE IF IsTagLike(text) THEN Rule("junk", 99)
    ELSE IF IsHeaderKeyword(text) THEN Rule("header", 99)
    ELSE IF IsForTheHeader(text) THEN Rule("header", 97)
    ELSE IF IsNoteColonHeader(text) THEN Rule("header", 98)
    ELSE IF IsKeywordColonHeader(text) THEN Rule("header", 98)
    ELSE IF IsShortColonHeader(text) THEN Rule("header", 90)
    ELSE IF IsNoteColonLine(text) THEN Rule("note", 97)
    ELSE IF IsNoteLeadLine(text) THEN Rule("note", 95)
    ELSE IF IsQuantityLed(text) THEN Rule("ingredient", 95)
    ELSE IF IsTimesLed(text) THEN Rule("ingredient", 92)
    ELSE IF IsActionLed(text) THEN Rule("step", 92)
    ELSE IF IsLongLine(text) THEN Rule("step", 88)
    ELSE IF HasIngredientHint(text) THEN Rule("ingredient", 86)
    ELSE IF LooksLikeTitle(text) THEN Rule("title", 78)
    ELSE NoRule

\* What the statistical classifier can return for a line, whatever was
\* learnt: any label, with the soft-max share of that label.
StatisticalOutcomes == [label : LABELS, confidence : {40000, 95004}]

\* A plausible slip: the statistical result wins whenever it is the surer.
predict_with_confidence_Surest(heuristic, statistical) ==
    IF heuristic # NoRule /\ heuristic.confidence >= statistical.confidence
    THEN heuristic
    ELSE statistical

\* NGramNaiveBayesClassifier.predict_with_confidence, from the result of
\* rule_based_label(text) and the result the statistical scores would give:
\* label and confidence.
predict_with_confidence(heuristic, statistical) ==
    IF heuristic # NoRule THEN heuristic ELSE statistical

looks_like_note_header_n(text) == Strip(normalize_for_features(text))

looks_like_note_header_stem(text) ==
    IF EndsWith(looks_like_note_header_n(text), ":") THEN Strip(SubSeq(looks_like_note_header_n(text), 1, Len(looks_like_note_header_n(text)) - 1)) ELSE looks_like_note_header_n(text)

looks_like_note_header(text) ==
    StartsWithAny(looks_like_note_header_stem(text), NOTE_PREFIXES, "")

header_section_from_text_n(text) == Strip(normalize_for_features(text))

header_section_from_text_stem(text) ==
    IF EndsWith(header_section_from_text_n(text), ":") THEN Strip(SubSeq(header_section_from_text_n(text), 1, Len(header_section_from_text_n(text)) - 1)) ELSE header_section_from_text_n(text)

header_section_from_text(text) ==
    IF header_section_from_text_stem(text) \in INGREDIENT_HEADER_KEYWORDS THEN "ingredients"
    ELSE IF header_section_from_text_stem(text) \in STEP_HEADER_KEYWORDS THEN "steps"
    ELSE IF StartsWithAny(header_section_from_text_stem(text), NOTE_PREFIXES, "") THEN "notes"
    ELSE "none"

\* --------------------------------------------------- run_predictions

\* The lines a document is made of.
TrackerLines ==
    {"Ingredients:", "Instructions:", "Notes:", "Topping", "ripe avocados",
     "2 ripe avocados", "mix well", "tip: use ripe ones",
     "2 ripe avocados peeled pitted mashed with a fork"}

\* What the text-only functions of schema_model give on each line, worked
\* out once.
OnLine ==
    [text \in TrackerLines \cup {""} |->
        [rule |-> rule_based_label(text),
         normalized |-> Strip(normalize_for_features(text)),
         header_section |-> header_section_from_text(text),
         note_header |-> looks_like_note_header(text)]]

\* A plausible slip: the floor replaces the confidence.
RaiseTo_Floor(confidence, floor) == floor

\* max(confidence, floor)
RaiseTo(confidence, floor) == IF confidence >= floor THEN confidence ELSE floor

\* An override of the tracker: the label is set, the confidence raised.
Override(out, label, hundredths) ==
    [label |-> label,
     confidence |-> RaiseTo(out.confidence, Conf(hundredths)),
     floors |-> out.floors \cup {Conf(hundredths)}]

StartsWithAction(normalized) == StartsWithAny(normalized, ACTION_PREFIXES, " ")

\* A plausible slip: only step-labelled lines are pulled into the
\* ingredients section.
IngredientOverrideApplies_StepOnly(current_section, line_index, predicted, normalized) ==
    /\ current_section = "ingredients"
    /\ line_index > 0
    /\ predicted = "step"
    /\ ~StartsWithAction(normalized)

\* run_predictions: the condition of the override inside an ingredients
\* section.
IngredientOverrideApplies(current_section, line_index, predicted, normalized) ==
    /\ current_section = "ingredients"
    /\ line_index > 0
    /\ predicted \in {"step", "title", "junk"}
    /\ ~StartsWithAction(normalized)

StepOverrideApplies(current_section, line_index, predicted, normalized) ==
    /\ current_section = "steps"
    /\ predicted \in {"title", "ingredient"}
    /\ line_index > 0
    /\ StartsWithAction(normalized)

\* A plausible slip: the first line is forced to title even when its text
\* is a section header.
TitleOverrideApplies_HeadersToo(line_index, predicted, header_section) ==
    line_index = 0 /\ predicted # "title"

\* run_predictions: the condition of the override of the first line.
TitleOverrideApplies(line_index, predicted, header_section) ==
    line_index = 0 /\ predicted # "title" /\ header_section = "none"

\* A plausible slip: the line after a note-style line is forced to note
\* whatever its label.
NoteHeaderOverrideApplies_AnyLabel(after_note_header, predicted) == after_note_header

\* run_predictions: the condition of the override after a note-style line.
NoteHeaderOverrideApplies(after_note_header, predicted) ==
    after_note_header /\ predicted # "header"

\* One iteration of the loop of run_predictions, from the classifier's
\* result `raw` to the prediction appended and the state carried on.
run_predictions_row_Row(line_index, current_section, raw, on, after_note_header) ==
    LET normalized == on.normalized
        header_section == on.header_section
        p0 == [label |-> raw.label, confidence |-> raw.confidence, floors |-> {}]
        TitleRule(p) ==
            IF TitleOverrideApplies(line_index, p.label, header_section)
            THEN Override(p, "title", 88) ELSE p
        NoteHeaderRule(p) ==
            IF NoteHeaderOverrideApplies(after_note_header, p.label)
            THEN Override(p, "note", 90) ELSE p
        p2 == NoteHeaderRule(TitleRule(p0))
        SectionAfter(p) ==
            IF p.label = "header" /\ header_section # "none"
            THEN header_section ELSE current_section
        HeaderRule(p) ==
            IF p.label = "header" /\ header_section = "none"
            THEN IF current_section = "steps" /\ ~EndsWith(normalized, ":")
                 THEN Override(p, "step", 82)
                 ELSE IF current_section = "ingredients" /\ ~EndsWith(normalized, ":")
                      THEN Override(p, "ingredient", 82)
                      ELSE p
            ELSE p
        IngredientRule(p, section) ==
            IF IngredientOverrideApplies(section, line_index, p.label, normalized)
            THEN Override(p, "ingredient", 82) ELSE p
        StepRule(p, section) ==
            IF StepOverrideApplies(section, line_index, p.label, normalized)
            THEN Override(p, "step", 82) ELSE p
        Out(after_note_rule, section) ==
            LET Prediction(p) ==
                    [predicted |-> p.label, confidence |-> p.confidence,
                     floors |-> p.floors, after_note_rule |-> after_note_rule.label,
                     current_section |-> section]
            IN  Prediction(StepRule(
                    IngredientRule(HeaderRule(after_note_rule), section), section))
        Sectioned(p) == Out(p, SectionAfter(p))
    IN  Sectioned(p2)

run_predictions_row_Lines(line_index, current_section, previous_line_text, text, raw, on) ==
    run_predictions_row_Row(line_index, current_section, raw, on[text], on[previous_line_text].note_header)

run_predictions_row(line_index, current_section, previous_line_text, text, raw) ==
    run_predictions_row_Lines(line_index, current_section, previous_line_text, text, raw, OnLine)

\* -------------------------------------------------- Predictor.predict

NOTE_HEADER_PREFIXES ==
    {"note", "notes", "tip", "tips", "variation", "variations", "chef's note",
     "storage", "substitution", "substitutions"}

INGREDIENT_HEADER_PREFIXES ==
    {"ingredient", "ingredients", "for the ingredients", "what you'll need"}

STEP_HEADER_PREFIXES ==
    {"instruction", "instructions", "direction", "directions", "method",
     "preparation", "steps"}

IsWordChar(c) == IsAlphaChar(c) \/ c \in DigitChars

\* re.sub(r"^[\W_]+|[\W_]+$", "", s)
LStripNonWord(s) ==
    DropChars(s, LeadingRunOutside(s, UpperChars \cup LowerChars \cup DigitChars))

RStripNonWord(s) ==
    SubSeq(s, 1, Len(s) - TrailingRunOutside(s, UpperChars \cup LowerChars \cup DigitChars))

Predictor_header_key_key(line) == RStripNonWord(LStripNonWord(Lower(Strip(line))))

Predictor_header_key(line) ==
    IF EndsWith(Predictor_header_key_key(line), ":") THEN Strip(SubSeq(Predictor_header_key_key(line), 1, Len(Predictor_header_key_key(line)) - 1)) ELSE Predictor_header_key_key(line)

Predictor_header_section_key(line) == Predictor_header_key(line)

Predictor_header_section(line) ==
    IF Predictor_header_section_key(line) \in INGREDIENT_HEADER_PREFIXES THEN "ingredient"
    ELSE IF Predictor_header_section_key(line) \in STEP_HEADER_PREFIXES THEN "step"
    ELSE IF Predictor_header_section_key(line) \in NOTE_HEADER_PREFIXES THEN "note"
    ELSE "none"

Predictor_looks_like_header_text(line) == Strip(line)

Predictor_looks_like_header_words(line) ==
    Words(SubSeq(Predictor_looks_like_header_text(line), 1, Len(Predictor_looks_like_header_text(line)) - 1))

Predictor_looks_like_header(line) ==
    /\ EndsWith(Predictor_looks_like_header_text(line), ":")
    /\ 0 < Len(Predictor_looks_like_header_words(line)) /\ Len(Predictor_looks_like_header_words(line)) <= 7
    /\ Len(Predictor_looks_like_header_text(line)) <= 90

Predictor_looks_like_title_line(line, idx) ==
    LET text == Strip(line)
    IN  /\ idx = 0
        /\ text # "" /\ ~EndsWith(text, ":")
        /\ Len(text) <= 110
        /\ 1 <= Len(Words(text)) /\ Len(Words(text)) <= 14
        /\ \A token \in {"ingredient", "instruction", "direction", "method", "step"} :
               ~Contains(Lower(text), token)
        /\ ~Contains(text, ".")

\* What the text-only methods of Predictor give on each line, worked out
\* once.
PredictorOnLine ==
    [line \in TrackerLines |->
        [header_section |-> Predictor_header_section(line),
         looks_like_header |-> Predictor_looks_like_header(line),
         looks_like_first_title |-> Predictor_looks_like_title_line(line, 0)]]

\* round(confidence, 4), on a confidence in units of 1e-5.
Round4(confidence) ==
    LET r == confidence % 10
        down == confidence - r
    IN  IF r < 5 THEN down
        ELSE IF r > 5 THEN down + 10
        ELSE IF (down \div 10) % 2 = 0 THEN down ELSE down + 10

\* One iteration of the loop of Predictor.predict.
predict_row_Row(idx, active_section, raw, on) ==
    LET header_section == on.header_section
        p0 == [label |-> raw.label, confidence |-> raw.confidence, floors |-> {}]
        TitleRule(p) ==
            IF idx = 0 /\ on.looks_like_first_title
            THEN Override(p, "title", 96) ELSE p
        SectionRule(p) ==
            IF header_section # "none" THEN Override(p, "header", 98)
            ELSE IF on.looks_like_header
                 THEN Override(p, "header", 93)
            ELSE IF active_section = "note" /\ p.label # "header"
                 THEN Override(p, "note", 90)
            ELSE IF active_section = "ingredient" /\ p.label \notin {"header", "title"}
                 THEN Override(p, "ingredient", 90)
            ELSE IF active_section = "step" /\ p.label # "header"
                 THEN Override(p, "step", 90)
            ELSE p
        Out(p1) ==
            LET Prediction(p2) ==
                    [predicted |-> p2.label, confidence |-> Round4(p2.confidence),
                     floors |-> p2.floors, after_note_rule |-> p1.label,
                     current_section |-> IF header_section # "none"
                                         THEN header_section ELSE active_section]
            IN  Prediction(SectionRule(p1))
    IN  Out(TitleRule(p0))

predict_row(idx, active_section, line, raw) ==
    predict_row_Row(idx, active_section, raw, PredictorOnLine[line])

\* ------------------------------------------ the two passes as actions

NoRow ==
    [text |-> "", statistical |-> NoRule, raw |-> NoRule, predicted |-> "",
     confidence |-> 0,
     floors |-> {}, after_note_rule |-> "", section_before |-> "none",
     previous_line_text |-> ""]

\* fn: which pass is running; line_index, current_section and
\* previous_line_text: the loop's variables after the last row; row: that
\* row, what the statistical scores alone would give for it, what the
\* classifier returned for it and what the pass output.
TrackerIdle ==
    [pc |-> "idle", fn |-> "none", line_index |-> NotRun,
     current_section |-> "none", previous_line_text |-> "", row |-> NoRow]

TrackerStep(fn, new_doc, text, statistical) ==
    LET first == new_doc \/ tracker.line_index = NotRun
        line_index == IF first THEN 0 ELSE tracker.line_index + 1
        section == IF first THEN "none" ELSE tracker.current_section
        previous == IF first THEN "" ELSE tracker.previous_line_text
        Pass(raw) ==
            IF fn = "run_predictions"
            THEN run_predictions_row(line_index, section, previous, text, raw)
            ELSE predict_row(line_index, section, text, raw)
        Tracked(raw, out) ==
            [tracker EXCEPT
               !.line_index = line_index,
               !.current_section = out.current_section,
               !.previous_line_text = text,
               !.row = [text |-> text, statistical |-> statistical, raw |-> raw,
                        predicted |-> out.predicted,
                        confidence |-> out.confidence, floors |-> out.floors,
                        after_note_rule |-> out.after_note_rule,
                        section_before |-> section,
                        previous_line_text |-> previous]]
        Classified(raw) == Tracked(raw, Pass(raw))
    IN  /\ tracker.pc = "running"
        /\ tracker.fn = fn
        /\ line_index < MaxDocLines
        /\ tracker' = Classified(predict_with_confidence(OnLine[text].rule, statistical))
        /\ UNCHANGED <<lifecycleVars, predictVars, assembler, validation, harness, dataset,
                     appending>>

\* run_predictions takes the next row: of the same document, or the first
\* of the next document.
RunPredictionsRow ==
    \E new_doc \in BOOLEAN, text \in TrackerLines, statistical \in StatisticalOutcomes :
        TrackerStep("run_predictions", new_doc, text, statistical)

\* Predictor.predict takes the next line of its request, or is called anew.
PredictRow ==
    \E new_doc \in BOOLEAN, text \in TrackerLines, statistical \in StatisticalOutcomes :
        TrackerStep("predict", new_doc, text, statistical)

\* ----------------------------------------------- _assemble_app_recipe

\* Lines are ASCII text without HTML entities, so html.unescape leaves them
\* as they are, and the regular expressions of lab_recipe.py are read on
\* letters, digits, the space and ASCII punctuation.

\* \w of a regular expression.
IsRegexWordChar(c) == IsWordChar(c) \/ c = "_"

\* \b at the gap after position i of s (0 is the start of s).
BoundaryAfter(s, i) ==
    LET left == i >= 1 /\ IsRegexWordChar(CharAt(s, i))
        right == i + 1 <= Len(s) /\ IsRegexWordChar(CharAt(s, i + 1))
    IN  left # right

LiteralAt(s, i, part) ==
    i >= 1 /\ i + Len(part) - 1 <= Len(s) /\ SubSeq(s, i, i + Len(part) - 1) = part

\* r"\bword\b" matches at position i of s.
WordAt(s, i, word) ==
    /\ LiteralAt(s, i, word)
    /\ BoundaryAfter(s, i - 1)
    /\ BoundaryAfter(s, i + Len(word) - 1)

\* re.search(r"\b(?:w1|w2|...)\b", s) for the words of a set.
ContainsAnyWord(s, words) ==
    \E word \in words : \E i \in 1..Len(s) : WordAt(s, i, word)

\* re.match(r"^(?:w1|w2|...)\b", s)
StartsWithAnyWord(s, words) ==
    \E word \in words : LiteralAt(s, 1, word) /\ BoundaryAfter(s, Len(word))

\* The number of characters of s that belong to chars.
CountChars(s, chars) == Cardinality({i \in 1..Len(s) : CharAt(s, i) \in chars})

\* int() of a string of digits.
DigitValue(c) ==
    CASE c = "0" -> 0 [] c = "1" -> 1 [] c = "2" -> 2 [] c = "3" -> 3
      [] c = "4" -> 4 [] c = "5" -> 5 [] c = "6" -> 6 [] c = "7" -> 7
      [] c = "8" -> 8 [] c = "9" -> 9

RECURSIVE ToInt(_)
ToInt(digits) ==
    IF digits = "" THEN 0
    ELSE 10 * ToInt(SubSeq(digits, 1, Len(digits) - 1))
             + DigitValue(CharAt(digits, Len(digits)))

clean_text(value) == Strip(CollapseSpaces(value))

QuantityChars == DigitChars \cup {" ", "/", ".", "-"}

looks_like_ingredient_line(line) == line # "" /\ Head(line) \in QuantityChars

\* A match of r"(?<!\d)(\d{1,2})\.\s+" starts at position i of s.
StepNumberAt(s, i) ==
    /\ i <= Len(s) /\ CharAt(s, i) \in DigitChars
    /\ i = 1 \/ CharAt(s, i - 1) \notin DigitChars
    /\ \/ LiteralAt(s, i + 1, ". ")
       \/ i + 1 <= Len(s) /\ CharAt(s, i + 1) \in DigitChars /\ LiteralAt(s, i + 2, ". ")

\* The parts of s that start at the step numbers at or after position i.
RECURSIVE NumberedParts(_, _, _)
NumberedParts(s, start, i) ==
    IF i > Len(s)
    THEN <<clean_text(SubSeq(s, start, Len(s)))>>
    ELSE IF StepNumberAt(s, i)
         THEN <<clean_text(SubSeq(s, start, i - 1))>> \o NumberedParts(s, i, i + 1)
         ELSE NumberedParts(s, start, i + 1)

\* The numbers of the step markers of s at or after position i, in the
\* order of the markers.
RECURSIVE StepNumbersFrom(_, _)
StepNumbersFrom(s, i) ==
    IF i > Len(s) THEN <<>>
    ELSE IF StepNumberAt(s, i)
         THEN <<ToInt(SubSeq(s, i, i + LeadingRun(SubSeq(s, i, Len(s)), DigitChars) - 1))>>
                  \o StepNumbersFrom(s, i + 1)
         ELSE StepNumbersFrom(s, i + 1)

split_numbered_steps_cleaned(text) == clean_text(text)

split_numbered_steps_starts(text) ==
    {i \in 1..Len(split_numbered_steps_cleaned(text)) : StepNumberAt(split_numbered_steps_cleaned(text), i)}

split_numbered_steps(text) ==
    IF split_numbered_steps_cleaned(text) = "" THEN <<>>
    ELSE IF Cardinality(split_numbered_steps_starts(text)) < 2 \/ 1 \notin split_numbered_steps_starts(text) THEN <<split_numbered_steps_cleaned(text)>>
    ELSE NumberedParts(split_numbered_steps_cleaned(text), 1, 2)

\* The bullets of the source's patterns are not ASCII; the number prefix is
\* r"^\s*\d{1,2}\s*[.)]\s*".
strip_step_number_prefix_cleaned(text) == clean_text(text)

strip_step_number_prefix_digits(text) ==
    LeadingRun(strip_step_number_prefix_cleaned(text), DigitChars)

strip_step_number_prefix_rest(text) ==
    LStrip(DropChars(strip_step_number_prefix_cleaned(text), strip_step_number_prefix_digits(text)))

strip_step_number_prefix(text) ==
    IF strip_step_number_prefix_digits(text) \in {1, 2} /\ strip_step_number_prefix_rest(text) # "" /\ Head(strip_step_number_prefix_rest(text)) \in {".", ")"}
    THEN Strip(Tail(strip_step_number_prefix_rest(text)))
    ELSE strip_step_number_prefix_cleaned(text)

header_key_key(line) == RStripNonWord(LStripNonWord(Lower(Strip(line))))

header_key(line) ==
    IF EndsWith(header_key_key(line), ":") THEN Strip(SubSeq(header_key_key(line), 1, Len(header_key_key(line)) - 1)) ELSE header_key_key(line)

header_section_type_key(line) == header_key(line)

header_section_type(line) ==
    IF header_section_type_key(line) \in INGREDIENT_HEADER_PREFIXES THEN "ingredients"
    ELSE IF header_section_type_key(line) \in STEP_HEADER_PREFIXES THEN "steps"
    ELSE IF header_section_type_key(line) \in NOTE_HEADER_PREFIXES THEN "notes"
    ELSE "none"

looks_like_subsection_header_text(line) == Strip(line)

looks_like_subsection_header_words(line) ==
    Words(SubSeq(looks_like_subsection_header_text(line), 1, Len(looks_like_subsection_header_text(line)) - 1))

looks_like_subsection_header(line) ==
    /\ EndsWith(looks_like_subsection_header_text(line), ":")
    /\ 0 < Len(looks_like_subsection_header_words(line)) /\ Len(looks_like_subsection_header_words(line)) <= 7
    /\ Len(looks_like_subsection_header_text(line)) <= 90
    /\ CountChars(looks_like_subsection_header_text(line), DigitChars) = 0

INSTRUCTION_KEYWORDS ==
    {"add", "bake", "beat", "blend", "boil", "combine", "cook", "cool", "drain",
     "fold", "fry", "grill", "heat", "knead", "let", "marinate", "mix", "place",
     "pour", "preheat", "reduce", "rest", "roast", "saute", "season", "serve",
     "simmer", "stir", "transfer", "whisk"}

\* re.split(r"[^a-z0-9]+", s), without the empty strings, as a set.
AlnumTokens(s) ==
    {SubSeq(s, i, j) : <<i, j>> \in
        {<<i, j>> \in (1..Len(s)) \X (1..Len(s)) :
            /\ i <= j
            /\ \A k \in i..j : CharAt(s, k) \in LowerChars \cup DigitChars
            /\ i = 1 \/ CharAt(s, i - 1) \notin LowerChars \cup DigitChars
            /\ j = Len(s) \/ CharAt(s, j + 1) \notin LowerChars \cup DigitChars}}

looks_like_headerless_instruction_words(line) == Words(Lower(line))

looks_like_headerless_instruction(line) ==
    IF looks_like_ingredient_line(line) THEN FALSE
    ELSE IF split_numbered_steps(line) # <<line>> THEN TRUE
    ELSE IF looks_like_headerless_instruction_words(line) = <<>> THEN FALSE
    ELSE \/ looks_like_headerless_instruction_words(line)[1] \in INSTRUCTION_KEYWORDS
         \/ /\ looks_like_headerless_instruction_words(line)[1] \in {"in", "on", "to", "then", "meanwhile"}
            /\ AlnumTokens(Lower(line)) \cap INSTRUCTION_KEYWORDS # {}

\* r"(?:prep(?:ping)?|preparation|cook(?:ing)?|total)\s*tim(?:e)?\b" matches at
\* position i of a lower-case s.
TimeLabelAt(s, i) ==
    \E head \in {"prep", "prepping", "preparation", "cook", "cooking", "total"} :
        /\ LiteralAt(s, i, head)
        /\ LET rest == LStrip(DropChars(s, i + Len(head) - 1))
           IN  \E tail \in {"tim", "time"} :
                   LiteralAt(rest, 1, tail) /\ BoundaryAfter(rest, Len(tail))

OCR_KEEP == {"salt", "zest", "oil", "rice", "egg", "eggs"}

is_ocr_artifact_line_Lowered(cleaned, lowered) ==
    \/ cleaned = ""
    \/ Contains(lowered, "templatelab") \/ Contains(lowered, "created by")
    \/ lowered = "reated b"
    \/ TimeLabelAt(lowered, 1)
    \/ CountChars(cleaned, UpperChars \cup LowerChars \cup DigitChars) = 0
    \/ CountChars(cleaned, UpperChars \cup LowerChars) <= 1
    \/ /\ Len(cleaned) <= 6
       /\ CountChars(cleaned, UpperChars \cup LowerChars) = Len(cleaned)
       /\ lowered \notin OCR_KEEP

is_ocr_artifact_line_Cleaned(cleaned) == is_ocr_artifact_line_Lowered(cleaned, Lower(cleaned))

is_ocr_artifact_line(text) ==
    is_ocr_artifact_line_Cleaned(clean_text(text))

\* The end of a match of r"\btips?\s*(?:and|&)\s*variations?\b" that starts at
\* position i of a lower-case s, or 0.
TipsAndVariationsEnd_ends(s, i) ==
        {i + Len(phrase) - 1 : phrase \in
    {phrase \in {tip \o sp1 \o conj \o sp2 \o variation :
                   tip \in {"tip", "tips"}, sp1 \in {"", " "},
                   conj \in {"and", "&"}, sp2 \in {"", " "},
                   variation \in {"variation", "variations"}} :
        /\ LiteralAt(s, i, phrase)
        /\ BoundaryAfter(s, i - 1)
        /\ BoundaryAfter(s, i + Len(phrase) - 1)}}

TipsAndVariationsEnd(s, i) ==
    IF TipsAndVariationsEnd_ends(s, i) = {} THEN 0 ELSE CHOOSE e \in TipsAndVariationsEnd_ends(s, i) : \A other \in TipsAndVariationsEnd_ends(s, i) : other <= e

\* _extract_tips_remainder: <<>> for None, <<remainder>> otherwise.
extract_tips_remainder_Rest(rest) ==
    <<clean_text(DropChars(rest, LeadingRun(rest, {":", "-", " "})))>>

extract_tips_remainder_First(cleaned, lowered, first) ==
    extract_tips_remainder_Rest(DropChars(cleaned, TipsAndVariationsEnd(lowered, first)))

extract_tips_remainder_Starts(cleaned, lowered, starts) ==
    IF starts # {}
    THEN extract_tips_remainder_First(cleaned, lowered, CHOOSE i \in starts : \A other \in starts : i <= other)
    ELSE IF lowered \in {"tip", "tips"} THEN <<"">>
    ELSE <<>>

extract_tips_remainder_Lowered(cleaned, lowered) ==
    extract_tips_remainder_Starts(cleaned, lowered,
           {i \in 1..Len(lowered) : TipsAndVariationsEnd(lowered, i) > 0})

extract_tips_remainder_Cleaned(cleaned) ==
    IF cleaned = "" THEN <<>> ELSE extract_tips_remainder_Lowered(cleaned, Lower(cleaned))

extract_tips_remainder(text) ==
    extract_tips_remainder_Cleaned(clean_text(text))

normalize_note_text(text) ==
    LET cleaned == clean_text(text)
    IN  clean_text(DropChars(cleaned, LeadingRun(cleaned, {",", ";", ":", "-", " "})))

NOTE_FIRST_TOKENS ==
    {"for", "feel", "use", "optional", "tip", "tips", "variation", "variations",
     "extra"}

NOTE_WORDS == {"flavor", "nutrition", "twist", "optional", "variation", "tip", "wine"}

looks_like_note_fragment_FirstToken(cleaned) ==
    Lower(SubSeq(cleaned, 1, LeadingRun(cleaned, UpperChars \cup LowerChars)))

looks_like_note_fragment_Cleaned(cleaned) ==
    IF cleaned = "" THEN FALSE
    ELSE IF looks_like_ingredient_line(cleaned) THEN FALSE
    ELSE IF looks_like_headerless_instruction(cleaned) THEN FALSE
    ELSE IF Head(cleaned) \in {",", ";", ":"} THEN Len(Words(cleaned)) >= 2
    ELSE \/ looks_like_note_fragment_FirstToken(cleaned) \in NOTE_FIRST_TOKENS
         \/ ContainsAnyWord(Lower(cleaned), NOTE_WORDS)

looks_like_note_fragment(text) ==
    looks_like_note_fragment_Cleaned(clean_text(text))

STEP_VERB_WORDS ==
    {"add", "cook", "drain", "heat", "mix", "preheat", "prepare", "remove",
     "rest", "return", "serve", "simmer", "sprinkle", "stir", "toss"}

STEP_CONTEXT_WORDS ==
    {"bowl", "broth", "minute", "minutes", "oven", "pot", "sauce", "set aside",
     "skillet"}

looks_like_step_fragment_Lowered(cleaned, lowered) ==
    \/ ContainsAnyWord(lowered, STEP_VERB_WORDS)
    \/ ContainsAnyWord(lowered, STEP_CONTEXT_WORDS)
    \/ EndsWith(cleaned, ".") /\ Len(Words(cleaned)) >= 4

looks_like_step_fragment_Cleaned(cleaned) ==
    IF cleaned = "" THEN FALSE
    ELSE IF is_ocr_artifact_line(cleaned) THEN FALSE
    ELSE IF extract_tips_remainder(cleaned) # <<>> THEN FALSE
    ELSE IF looks_like_ingredient_line(cleaned) THEN FALSE
    ELSE IF looks_like_note_fragment(cleaned) THEN FALSE
    ELSE IF looks_like_headerless_instruction(cleaned) THEN TRUE
    ELSE looks_like_step_fragment_Lowered(cleaned, Lower(cleaned))

looks_like_step_fragment(text) ==
    looks_like_step_fragment_Cleaned(clean_text(text))

\* The position of the first part in s, or 0.
FirstIndexOf(s, part) ==
    IF \E i \in 1..Len(s) : LiteralAt(s, i, part)
    THEN CHOOSE i \in 1..Len(s) : /\ LiteralAt(s, i, part)
                                  /\ \A j \in 1..(i - 1) : ~LiteralAt(s, j, part)
    ELSE 0

\* str.replace
RECURSIVE Replace(_, _, _)
Replace(s, old, new) ==
    LET at == FirstIndexOf(s, old)
    IN  IF at = 0 THEN s
        ELSE SubSeq(s, 1, at - 1) \o new \o Replace(DropChars(s, at + Len(old) - 1), old, new)

\* The first position of s that holds a digit, or 0.
FirstDigit(s) ==
    LET at == {i \in 1..Len(s) : CharAt(s, i) \in DigitChars}
    IN  IF at = {} THEN 0 ELSE CHOOSE i \in at : \A other \in at : i <= other

YIELD_PREFIXES ==
    {"serves", "serving", "servings", "yield", "yields", "makes", "portion",
     "portions"}

\* The text matched by r"(\d+(?:\s*(?:-|to)\s*\d+)?)" from the first digit of
\* text, upper or lower case.
YieldNumber_Upper(from, digits, joined, upper) ==
    IF upper > 0 THEN SubSeq(from, 1, joined + upper) ELSE SubSeq(from, 1, digits)

YieldNumber_Gap2(from, digits, joined, rest) ==
    YieldNumber_Upper(from, digits, joined + LeadingRun(rest, {" "}),
          LeadingRun(DropChars(rest, LeadingRun(rest, {" "})), DigitChars))

YieldNumber_Joiner(from, digits, gap, joined, joiner) ==
    IF joiner > 0
    THEN YieldNumber_Gap2(from, digits, digits + gap + joiner, DropChars(joined, joiner))
    ELSE SubSeq(from, 1, digits)

YieldNumber_Joined(from, digits, gap, joined) ==
    YieldNumber_Joiner(from, digits, gap, joined,
           IF StartsWith(joined, "-") THEN 1
           ELSE IF StartsWith(Lower(joined), "to") THEN 2 ELSE 0)

YieldNumber_Gap(from, digits, gap) ==
    YieldNumber_Joined(from, digits, gap, DropChars(from, digits + gap))

YieldNumber_Digits(from, digits) ==
    YieldNumber_Gap(from, digits, LeadingRun(DropChars(from, digits), {" "}))

YieldNumber_From(from) == YieldNumber_Digits(from, LeadingRun(from, DigitChars))

YieldNumber(text) ==
    YieldNumber_From(DropChars(text, FirstDigit(text) - 1))

\* _extract_yield_line: <<>> for None, <<yields>> otherwise.
extract_yield_line_lowered(text) == Lower(Strip(text))

extract_yield_line(text) ==
    IF ~\E key \in YIELD_PREFIXES :
            \/ extract_yield_line_lowered(text) = key
            \/ StartsWith(extract_yield_line_lowered(text), key \o " ")
            \/ StartsWith(extract_yield_line_lowered(text), key \o ":")
    THEN <<>>
    ELSE IF FirstDigit(text) = 0 THEN <<>>
    ELSE <<Strip(CollapseSpaces(Replace(YieldNumber(text), " to ", "-")))
             \o " servings">>

NoMinutes == -1

\* The digit runs of s that start at a word boundary, as <<first, last>>.
NumberRuns(s) ==
    {<<i, i + LeadingRun(DropChars(s, i - 1), DigitChars) - 1>> : i \in
        {i \in 1..Len(s) : CharAt(s, i) \in DigitChars /\ BoundaryAfter(s, i - 1)}}

\* re.search(r"\b(\d+)\s*(?:u1|u2|...)\b", s): the number of the first match,
\* or NoMinutes.  The unit "" stands for no unit at all.
NumberBefore_hits(s, units) ==
        {run \in NumberRuns(s) :
    LET rest == DropChars(s, run[2])
    IN  \E unit \in units :
            IF unit = "" THEN BoundaryAfter(s, run[2])
            ELSE /\ LiteralAt(LStrip(rest), 1, unit)
                 /\ BoundaryAfter(LStrip(rest), Len(unit))}

NumberBefore_first(s, units) ==
    CHOOSE run \in NumberBefore_hits(s, units) : \A other \in NumberBefore_hits(s, units) : run[1] <= other[1]

NumberBefore(s, units) ==
    IF NumberBefore_hits(s, units) = {} THEN NoMinutes ELSE ToInt(SubSeq(s, NumberBefore_first(s, units)[1], NumberBefore_first(s, units)[2]))

\* re.search(r"\b(\d+):(\d+)\b", s): hours * 60 + minutes of the first match, or
\* NoMinutes.
ClockMinutes_hits(s) ==
        {run \in NumberRuns(s) :
    /\ LiteralAt(s, run[2] + 1, ":")
    /\ run[2] + 2 <= Len(s) /\ CharAt(s, run[2] + 2) \in DigitChars
    /\ BoundaryAfter(s, run[2] + 1
           + LeadingRun(DropChars(s, run[2] + 1), DigitChars))}

ClockMinutes_first(s) ==
    CHOOSE run \in ClockMinutes_hits(s) : \A other \in ClockMinutes_hits(s) : run[1] <= other[1]

ClockMinutes_minutes(s) ==
    SubSeq(s, ClockMinutes_first(s)[2] + 2, ClockMinutes_first(s)[2] + 1
       + LeadingRun(DropChars(s, ClockMinutes_first(s)[2] + 1), DigitChars))

ClockMinutes(s) ==
    IF ClockMinutes_hits(s) = {} THEN NoMinutes
    ELSE ToInt(SubSeq(s, ClockMinutes_first(s)[1], ClockMinutes_first(s)[2])) * 60 + ToInt(ClockMinutes_minutes(s))

parse_time_string_minutes_OrElse(minutes, other) ==
    IF minutes # NoMinutes THEN minutes ELSE other

parse_time_string_minutes_Units(hours, minutes) ==
    IF hours # NoMinutes \/ minutes # NoMinutes
    THEN (IF hours = NoMinutes THEN 0 ELSE hours) * 60
             + (IF minutes = NoMinutes THEN 0 ELSE minutes)
    ELSE NoMinutes

parse_time_string_minutes_Cleaned(cleaned) ==
    IF cleaned = "" THEN NoMinutes
    ELSE parse_time_string_minutes_OrElse(ClockMinutes(cleaned),
         parse_time_string_minutes_OrElse(parse_time_string_minutes_Units(NumberBefore(cleaned, {"hours", "hour", "hrs", "hr", "h"}),
                      NumberBefore(cleaned, {"minutes", "minute", "mins", "min", "m"})),
                NumberBefore(cleaned, {""})))

parse_time_string_minutes(text) ==
    parse_time_string_minutes_Cleaned(Lower(Strip(text)))

\* _extract_minutes_by_pattern for r"^\s*(?:h1|h2|...)\s*:?\s*(.+)$", the
\* alternatives given in their order, a blank of an alternative being \s*.
RECURSIVE extract_minutes_by_pattern(_, _)
extract_minutes_by_pattern_OrElse(minutes, other) ==
    IF minutes # NoMinutes THEN minutes ELSE other

extract_minutes_by_pattern_Matched(len, tail) ==
    IF len > 0 /\ tail # ""
    THEN parse_time_string_minutes(IF Head(tail) = ":" THEN Tail(tail) ELSE tail)
    ELSE NoMinutes

extract_minutes_by_pattern_Headed(stripped, len) ==
    extract_minutes_by_pattern_Matched(len, clean_text(DropChars(stripped, len)))

extract_minutes_by_pattern_Heads(stripped, lowered, spaced, joined) ==
    extract_minutes_by_pattern_Headed(stripped, IF StartsWith(lowered, spaced) THEN Len(spaced)
                     ELSE IF StartsWith(lowered, joined) THEN Len(joined) ELSE 0)

extract_minutes_by_pattern_Stripped(heads, stripped) ==
    extract_minutes_by_pattern_Heads(stripped, Lower(stripped), Head(heads), Replace(Head(heads), " ", ""))

extract_minutes_by_pattern(text, heads) ==
    IF heads = <<>> THEN NoMinutes
    ELSE
         extract_minutes_by_pattern_OrElse(extract_minutes_by_pattern_Stripped(heads, LStrip(text)), extract_minutes_by_pattern(text, Tail(heads)))

\* _extract_minutes_by_pattern for r"^\s*time\s*:\s*(.+)$".
TimeColonMinutes_Tailed(tail) ==
    IF tail # "" THEN parse_time_string_minutes(tail) ELSE NoMinutes

TimeColonMinutes_Rest(stripped, rest) ==
    IF StartsWith(Lower(stripped), "time") /\ StartsWith(rest, ":")
    THEN TimeColonMinutes_Tailed(clean_text(Tail(rest)))
    ELSE NoMinutes

TimeColonMinutes_Stripped(stripped) ==
    TimeColonMinutes_Rest(stripped, LStrip(DropChars(stripped, 4)))

TimeColonMinutes(text) ==
    TimeColonMinutes_Stripped(LStrip(text))

\* _extract_metadata_line: the fields found on the line.
extract_metadata_line_OrElse(minutes, other) == IF minutes # NoMinutes THEN minutes ELSE other

extract_metadata_line(text) ==
    [yields |-> IF text = "" THEN <<>> ELSE extract_yield_line(text),
     total_minutes |-> IF text = "" THEN NoMinutes
                       ELSE extract_metadata_line_OrElse(extract_minutes_by_pattern(
                                       text, <<"total time", "total", "ready in">>),
                                   TimeColonMinutes(text)),
     prep_minutes |-> IF text = "" THEN NoMinutes
                      ELSE extract_minutes_by_pattern(text,
                               <<"prep time", "prepping time", "preparation time">>),
     cook_minutes |-> IF text = "" THEN NoMinutes
                      ELSE extract_minutes_by_pattern(text,
                               <<"cook time", "cooking time", "bake time",
                                 "roast time">>)]

NoMetadata ==
    [yields |-> <<>>, total_minutes |-> NoMinutes, prep_minutes |-> NoMinutes,
     cook_minutes |-> NoMinutes]

TITLE_STOP_LEADS == {"for", "feel", "use"}

TITLE_STOP_VERBS ==
    {"preheat", "mix", "add", "bake", "cook", "stir", "whisk", "combine", "toss",
     "rest", "serve", "simmer", "boil"}

\* len(re.findall(r"[A-Za-z][A-Za-z'&-]*", s))
RECURSIVE CountTitleWords(_)
CountTitleWords(s) ==
    IF s = "" THEN 0
    ELSE IF IsAlphaChar(Head(s))
         THEN 1 + CountTitleWords(
                      DropChars(s, LeadingRun(s, UpperChars \cup LowerChars
                                                     \cup {"'", "&", "-"})))
         ELSE CountTitleWords(Tail(s))

looks_like_recipe_title_Counted(words) == words >= 2 /\ words <= 16

looks_like_recipe_title_Lowered(cleaned, lowered) ==
    /\ cleaned # ""
    /\ extract_tips_remainder(cleaned) = <<>>
    /\ ~looks_like_ingredient_line(cleaned)
    /\ extract_metadata_line(cleaned) = NoMetadata
    /\ ~\E i \in 1..Len(lowered) :
           BoundaryAfter(lowered, i - 1) /\ TimeLabelAt(lowered, i)
    /\ header_section_type(cleaned) = "none"
    /\ ~(Head(cleaned) \in {"-", "*"} /\ LiteralAt(cleaned, 2, " "))
    /\ ~EndsWith(cleaned, ".")
    /\ ~StartsWithAnyWord(lowered, TITLE_STOP_LEADS)
    /\ ~(Contains(cleaned, ",") /\ Len(Words(cleaned)) > 8)
    /\ ~StartsWithAnyWord(lowered, TITLE_STOP_VERBS)
    /\ looks_like_recipe_title_Counted(CountTitleWords(cleaned))

looks_like_recipe_title_Cleaned(cleaned) ==
    looks_like_recipe_title_Lowered(cleaned, Lower(cleaned))

looks_like_recipe_title(text) ==
    looks_like_recipe_title_Cleaned(clean_text(text))

\* TIMER_LABEL_KEYWORDS of lab_config.py, in its order.
TIMER_LABEL_KEYWORDS ==
    <<[keywords |-> {"rest", "resting"}, label |-> "Rest"],
      [keywords |-> {"chill", "chilling", "refrigerate", "cool", "cooling"},
       label |-> "Chill"],
      [keywords |-> {"rise", "proof", "proofing", "ferment"}, label |-> "Rise"],
      [keywords |-> {"marinate", "marinating"}, label |-> "Marinate"],
      [keywords |-> {"simmer", "simmering"}, label |-> "Simmer"],
      [keywords |-> {"boil", "boiling"}, label |-> "Boil"],
      [keywords |-> {"bake", "baking"}, label |-> "Bake"],
      [keywords |-> {"roast", "roasting"}, label |-> "Roast"],
      [keywords |-> {"fry", "frying", "saute"}, label |-> "Fry"]>>

\* The label of the first keyword group with a keyword in context, or "".
KeywordLabel(context) ==
    LET hits == {k \in DOMAIN TIMER_LABEL_KEYWORDS :
                    \E keyword \in TIMER_LABEL_KEYWORDS[k].keywords :
                        Contains(context, keyword)}
    IN  IF hits = {} THEN ""
        ELSE TIMER_LABEL_KEYWORDS[CHOOSE k \in hits : \A other \in hits : k <= other].label

infer_timer_label_from(start) == IF start - 60 > 0 THEN start - 60 ELSE 0

infer_timer_label_context_before(lowered_text, start) ==
    SubSeq(lowered_text, infer_timer_label_from(start) + 1, start)

infer_timer_label_upto(lowered_text, end) ==
    IF end + 24 < Len(lowered_text) THEN end + 24 ELSE Len(lowered_text)

infer_timer_label_context_after(lowered_text, end) ==
    SubSeq(lowered_text, end + 1, infer_timer_label_upto(lowered_text, end))

infer_timer_label(lowered_text, start, end, index, total) ==
    IF KeywordLabel(infer_timer_label_context_before(lowered_text, start)) # "" THEN KeywordLabel(infer_timer_label_context_before(lowered_text, start))
    ELSE IF KeywordLabel(infer_timer_label_context_after(lowered_text, end)) # "" THEN KeywordLabel(infer_timer_label_context_after(lowered_text, end))
    ELSE IF total > 1 /\ index = total - 1
              /\ (Contains(infer_timer_label_context_before(lowered_text, start), "then") \/ Contains(infer_timer_label_context_before(lowered_text, start), "after"))
         THEN "Rest"
    ELSE "Cook"

TIMER_UNITS ==
    {[word |-> "seconds", seconds |-> 1], [word |-> "second", seconds |-> 1],
     [word |-> "secs", seconds |-> 1], [word |-> "sec", seconds |-> 1],
     [word |-> "minutes", seconds |-> 60], [word |-> "minute", seconds |-> 60],
     [word |-> "mins", seconds |-> 60], [word |-> "min", seconds |-> 60],
     [word |-> "hours", seconds |-> 3600], [word |-> "hour", seconds |-> 3600],
     [word |-> "hrs", seconds |-> 3600], [word |-> "hr", seconds |-> 3600]}

\* The matches of the three patterns of _extract_timers in a lower-case s: the
\* offsets of the match as Python counts them, and the seconds.
TimerMatches(s) ==
    {[start |-> i - 1,
      end |-> i - 1 + digits + gap + Len(unit.word),
      seconds |-> ToInt(SubSeq(s, i, i + digits - 1)) * unit.seconds] :
        <<i, digits, gap, unit>> \in
            {<<i, digits, gap, unit>> \in
                    (1..Len(s)) \X (1..Len(s)) \X (0..Len(s)) \X TIMER_UNITS :
                /\ CharAt(s, i) \in DigitChars
                /\ i = 1 \/ CharAt(s, i - 1) \notin DigitChars
                /\ digits = LeadingRun(DropChars(s, i - 1), DigitChars)
                /\ gap = LeadingRun(DropChars(s, i - 1 + digits), {" "})
                /\ LiteralAt(s, i + digits + gap, unit.word)
                /\ BoundaryAfter(s, i + digits + gap + Len(unit.word) - 1)}}

\* The matches in the order of their start.
RECURSIVE TimersFrom(_, _, _, _)
TimersFrom_first(matches) ==
    CHOOSE m \in matches : \A other \in matches : m.start <= other.start

TimersFrom(lowered, matches, index, total) ==
    IF matches = {} THEN <<>>
    ELSE <<[seconds |-> TimersFrom_first(matches).seconds,
            label |-> infer_timer_label(lowered, TimersFrom_first(matches).start, TimersFrom_first(matches).end, index, total)]>>
             \o TimersFrom(lowered, matches \ {TimersFrom_first(matches)}, index + 1, total)

extract_timers_lowered(step_text) == Lower(step_text)

extract_timers(step_text) ==
    TimersFrom(extract_timers_lowered(step_text), TimerMatches(extract_timers_lowered(step_text)), 0, Cardinality(TimerMatches(extract_timers_lowered(step_text))))

\* ------------------------------------------------ _parse_ingredient_text

\* A quantity value is a fraction <<numerator, denominator>> with a positive
\* denominator; <<>> is None.  float() is taken of strings of digits with at
\* most one "." and an optional sign, which is what the quantity expressions
\* of the source's patterns can hold.
NoValue == <<>>

\* float(text), or NoValue on a ValueError.
RECURSIVE Pow10(_)
Pow10(n) == IF n = 0 THEN 1 ELSE 10 * Pow10(n - 1)

ParseFloat(text) ==
    LET Float(negative, body) ==
            LET Parts(whole) ==
                    LET dotted == LiteralAt(body, whole + 1, ".")
                        decimals == IF dotted THEN Len(body) - whole - 1 ELSE 0
                        Value(digits) ==
                            IF /\ digits # ""
                               /\ CountChars(digits, DigitChars) = Len(digits)
                               /\ dotted \/ whole = Len(body)
                            THEN <<IF negative THEN 0 - ToInt(digits) ELSE ToInt(digits),
                                   Pow10(decimals)>>
                            ELSE NoValue
                    IN  Value(SubSeq(body, 1, whole) \o DropChars(body, whole + 1))
            IN  Parts(LeadingRun(body, DigitChars))
        Signed(stripped) ==
            LET signed == stripped # "" /\ Head(stripped) \in {"-", "+"}
            IN  Float(signed /\ Head(stripped) = "-",
                      IF signed THEN Tail(stripped) ELSE stripped)
    IN  Signed(Strip(text))

AddValues(a, b) == <<a[1] * b[2] + b[1] * a[2], a[2] * b[2]>>

\* One character of _normalize_quantity_text's OCR repairs, looking at its
\* neighbours in the text before the repairs: the letters o, O read as 0, the
\* letters I, l read as 1, and a comma between digits read as a point.
QuantityCharRepaired(s, i) ==
    LET c == CharAt(s, i)
        prev == IF i > 1 THEN CharAt(s, i - 1) ELSE ""
        next == IF i < Len(s) THEN CharAt(s, i + 1) ELSE ""
        afterLetter == prev # "" /\ IsAlphaChar(prev)
        afterDigit == prev # "" /\ prev \in DigitChars
        beforeDigit == next # "" /\ next \in DigitChars
    IN  IF c \in {"o", "O"}
            /\ \/ ~afterLetter /\ beforeDigit
               \/ afterDigit /\ (beforeDigit \/ next = "/" \/ BoundaryAfter(s, i))
        THEN "0"
        ELSE IF c \in {"I", "l"}
            /\ \/ ~afterLetter /\ (beforeDigit \/ next \in {"/", "."} \/ BoundaryAfter(s, i))
               \/ afterDigit /\ (beforeDigit \/ next \in {"/", "."} \/ BoundaryAfter(s, i))
        THEN "1"
        ELSE IF c = "," /\ afterDigit /\ beforeDigit THEN "."
        ELSE c

RECURSIVE QuantityRepairedFrom(_, _)
QuantityRepairedFrom(s, i) ==
    IF i > Len(s) THEN ""
    ELSE QuantityCharRepaired(s, i) \o QuantityRepairedFrom(s, i + 1)

\* r"\d+\s*/\s*\d+" matches at the start of s.
StartsWithFraction(s) ==
    LET Slashed(rest) ==
            StartsWith(rest, "/") /\ LeadingRun(LStrip(Tail(rest)), DigitChars) > 0
        Numbered(digits) == digits > 0 /\ Slashed(LStrip(DropChars(s, digits)))
    IN  Numbered(LeadingRun(s, DigitChars))

normalize_quantity_text_Unslashed(repaired, rest) ==
    IF StartsWith(repaired, "/") /\ StartsWithFraction(rest) THEN rest ELSE repaired

normalize_quantity_text_Repaired(repaired) ==
    normalize_quantity_text_Unslashed(repaired, LStrip(Tail(repaired)))

normalize_quantity_text(text) ==
    normalize_quantity_text_Repaired(QuantityRepairedFrom(Strip(text), 1))

\* _parse_quantity_value on a text already normalized.
RECURSIVE QuantityValueOf(_)
QuantityValueOf_OrElse(value, other) == IF value # NoValue THEN value ELSE other

QuantityValueOf_Halved(sum) == <<sum[1], 2 * sum[2]>>

\* cleaned.split("-", 1): the mean of the two parts
QuantityValueOf_Mean(first, second) ==
    IF first # NoValue /\ second # NoValue
    THEN QuantityValueOf_Halved(AddValues(first, second)) ELSE NoValue

QuantityValueOf_Range(cleaned, dash) ==
    IF dash > 0
    THEN QuantityValueOf_Mean(QuantityValueOf(normalize_quantity_text(SubSeq(cleaned, 1, dash - 1))),
              QuantityValueOf(normalize_quantity_text(DropChars(cleaned, dash))))
    ELSE NoValue

\* cleaned.split("/", 1): numerator / denominator
QuantityValueOf_Ratio(numerator, denominator) ==
    IF numerator # NoValue /\ denominator # NoValue /\ denominator[1] # 0
    THEN IF denominator[1] > 0
         THEN <<numerator[1] * denominator[2], numerator[2] * denominator[1]>>
         ELSE <<0 - numerator[1] * denominator[2],
                0 - numerator[2] * denominator[1]>>
    ELSE NoValue

QuantityValueOf_Fraction(cleaned, slash) ==
    IF slash > 0
    THEN QuantityValueOf_Ratio(ParseFloat(SubSeq(cleaned, 1, slash - 1)),
               ParseFloat(DropChars(cleaned, slash)))
    ELSE NoValue

\* cleaned.split(): a whole number and a fraction
QuantityValueOf_Sum(whole, frac) ==
    IF whole # NoValue /\ frac # NoValue THEN AddValues(whole, frac) ELSE NoValue

QuantityValueOf_Mixed(parts) ==
    IF Len(parts) = 2
    THEN QuantityValueOf_Sum(ParseFloat(parts[1]),
             QuantityValueOf(normalize_quantity_text(parts[2])))
    ELSE NoValue

QuantityValueOf_merged(cleaned) ==
            /\ Len(cleaned) \in {4, 5}
    /\ CharAt(cleaned, 1) \in DigitChars \ {"0"}
    /\ CharAt(cleaned, 2) \in DigitChars \ {"0"}
    /\ CharAt(cleaned, 3) = "/"
    /\ CountChars(DropChars(cleaned, 3), DigitChars) = Len(cleaned) - 3
    /\ ToInt(DropChars(cleaned, 3)) \in {2, 3, 4, 8, 16}
    /\ ToInt(CharAt(cleaned, 2)) < ToInt(DropChars(cleaned, 3))

QuantityValueOf(cleaned) ==
    IF cleaned = "" THEN NoValue
    ELSE IF QuantityValueOf_merged(cleaned)
         THEN AddValues(<<ToInt(CharAt(cleaned, 1)), 1>>,
                        <<ToInt(CharAt(cleaned, 2)), ToInt(DropChars(cleaned, 3))>>)
    ELSE QuantityValueOf_OrElse(QuantityValueOf_Range(cleaned, FirstIndexOf(cleaned, "-")),
                QuantityValueOf_OrElse(QuantityValueOf_Fraction(cleaned, FirstIndexOf(cleaned, "/")),
                       QuantityValueOf_OrElse(QuantityValueOf_Mixed(Words(cleaned)), ParseFloat(cleaned))))

parse_quantity_value(text) == QuantityValueOf(normalize_quantity_text(text))

\* round(float(value), 4), in ten-thousandths; a tie goes to the even digit.
RoundValue(value) ==
    LET negative == value[1] < 0
        scaled == (IF negative THEN 0 - value[1] ELSE value[1]) * 10000
        down == scaled \div value[2]
        twice == 2 * (scaled % value[2])
        rounded == IF twice < value[2] THEN down
                   ELSE IF twice > value[2] THEN down + 1
                   ELSE IF down % 2 = 0 THEN down ELSE down + 1
    IN  IF negative THEN 0 - rounded ELSE rounded

\* UNIT_ALIASES of lab_config.py.
UNIT_ALIASES ==
    "1b" :> "lb" @@ "bunch" :> "bunch" @@ "bunches" :> "bunch" @@
    "c" :> "cup" @@ "can" :> "can" @@ "cans" :> "can" @@
    "clove" :> "clove" @@ "cloves" :> "clove" @@ "cup" :> "cup" @@
    "cups" :> "cup" @@ "dash" :> "dash" @@ "dashes" :> "dash" @@
    "fl oz" :> "fl oz" @@ "floz" :> "fl oz" @@ "fluid ounce" :> "fl oz" @@
    "fluid ounces" :> "fl oz" @@ "g" :> "g" @@ "gal" :> "gallon" @@
    "gallon" :> "gallon" @@ "gallons" :> "gallon" @@ "gals" :> "gallon" @@
    "gram" :> "g" @@ "grams" :> "g" @@ "ib" :> "lb" @@ "kg" :> "kg" @@
    "kgs" :> "kg" @@ "kilogram" :> "kg" @@ "kilograms" :> "kg" @@
    "l" :> "L" @@ "lb" :> "lb" @@ "lbs" :> "lb" @@ "liter" :> "L" @@
    "liters" :> "L" @@ "milliliter" :> "ml" @@ "milliliters" :> "ml" @@
    "ml" :> "ml" @@ "mls" :> "ml" @@ "ounce" :> "oz" @@ "ounces" :> "oz" @@
    "oz" :> "oz" @@ "package" :> "package" @@ "packages" :> "package" @@
    "piece" :> "piece" @@ "pieces" :> "piece" @@ "pinch" :> "pinch" @@
    "pinches" :> "pinch" @@ "pint" :> "pint" @@ "pints" :> "pint" @@
    "pound" :> "lb" @@ "pounds" :> "lb" @@ "pt" :> "pint" @@
    "pts" :> "pint" @@ "qt" :> "quart" @@ "qts" :> "quart" @@
    "quart" :> "quart" @@ "quarts" :> "quart" @@ "t" :> "tsp" @@
    "tablespoon" :> "tbsp" @@ "tablespoons" :> "tbsp" @@ "tbsp" :> "tbsp" @@
    "tbsps" :> "tbsp" @@ "teapoon" :> "tsp" @@ "teapoons" :> "tsp" @@
    "teaspoon" :> "tsp" @@ "teaspoons" :> "tsp" @@ "tsp" :> "tsp" @@
    "tsps" :> "tsp" @@ "whole" :> "whole"

NoUnit == ""

\* re.sub(r"^[^A-Za-z0-9]+|[^A-Za-z0-9]+$", "", s)
StripNonAlnum(s) == RStripNonWord(LStripNonWord(s))

parse_unit_token_Alias(normalized) ==
    IF normalized \in DOMAIN UNIT_ALIASES THEN UNIT_ALIASES[normalized]
    ELSE NoUnit

parse_unit_token_Unit(token) ==
    IF token = "T" THEN "tbsp"
    ELSE parse_unit_token_Alias(Replace(Replace(Replace(Replace(Lower(token),
             "1b", "lb"), "ib", "lb"), "tb5p", "tbsp"), "t5p", "tsp"))

parse_unit_token(unit_text) ==
    parse_unit_token_Unit(StripNonAlnum(
        Replace(Replace(Replace(Strip(unit_text), "$", "s"), "5", "s"), "0", "o")))

\* r"\s*/\s*\d" matches at the start of s.
StartsWithSlashDigit(s) ==
    /\ StartsWith(LStrip(s), "/")
    /\ LeadingRun(LStrip(Tail(LStrip(s))), DigitChars) > 0

\* r"\s*[.,]?\d" matches at the start of s.
StartsWithPointDigit(s) ==
    LET rest == LStrip(s)
    IN  \/ LeadingRun(rest, DigitChars) > 0
        \/ rest # "" /\ Head(rest) \in {".", ","}
               /\ LeadingRun(Tail(rest), DigitChars) > 0

\* The letters I, l before a slash and a digit read as 1.
RECURSIVE RepairOneFrom(_, _, _)
RepairOneFrom(s, lo, hi) ==
    IF lo > hi THEN ""
    ELSE IF lo = hi
         THEN IF /\ CharAt(s, lo) \in {"I", "l"}
                 /\ lo = 1 \/ ~IsAlphaChar(CharAt(s, lo - 1))
                 /\ StartsWithSlashDigit(DropChars(s, lo))
              THEN "1" ELSE CharAt(s, lo)
    ELSE RepairOneFrom(s, lo, (lo + hi) \div 2) \o RepairOneFrom(s, (lo + hi) \div 2 + 1, hi)

\* The letters o, O before a digit read as 0.
RECURSIVE RepairZeroFrom(_, _, _)
RepairZeroFrom(s, lo, hi) ==
    IF lo > hi THEN ""
    ELSE IF lo = hi
         THEN IF /\ CharAt(s, lo) \in {"o", "O"}
                 /\ lo = 1 \/ ~IsAlphaChar(CharAt(s, lo - 1))
                 /\ StartsWithPointDigit(DropChars(s, lo))
              THEN "0" ELSE CharAt(s, lo)
    ELSE RepairZeroFrom(s, lo, (lo + hi) \div 2) \o RepairZeroFrom(s, (lo + hi) \div 2 + 1, hi)

\* re.sub(r"\b(?:f1|f2|...)\b", new, s) from position i on.
RECURSIVE ReplaceWordsFrom(_, _, _, _)
ReplaceWordsFrom(s, i, forms, new) ==
    LET at == {k \in i..Len(s) : \E form \in forms : WordAt(s, k, form)}
        first == CHOOSE k \in at : \A other \in at : k <= other
        form == CHOOSE hit \in forms : WordAt(s, first, hit)
    IN  IF at = {} THEN SubSeq(s, i, Len(s))
        ELSE SubSeq(s, i, first - 1) \o new
                 \o ReplaceWordsFrom(s, first + Len(form), forms, new)

normalize_ocr_ingredient_text_Respelt(digits) ==
    ReplaceWordsFrom(
        ReplaceWordsFrom(
            ReplaceWordsFrom(digits, 1, {"tb5p", "tb 5p", "tb5 p", "tb 5 p"}, "tbsp"),
            1, {"t5p", "t 5p", "t5 p", "t 5 p"}, "tsp"),
        1, {"1b", "ib", "Ib"}, "lb")

normalize_ocr_ingredient_text_Zeros(ones) ==
    normalize_ocr_ingredient_text_Respelt(RepairZeroFrom(ones, 1, Len(ones)))

normalize_ocr_ingredient_text_Ones(unslashed) ==
    normalize_ocr_ingredient_text_Zeros(RepairOneFrom(unslashed, 1, Len(unslashed)))

\* the leading slashes go when a fraction follows them
normalize_ocr_ingredient_text_Rest(undashed, slashes, rest) ==
    normalize_ocr_ingredient_text_Ones(IF slashes > 0 /\ StartsWithFraction(rest) THEN rest ELSE undashed)

normalize_ocr_ingredient_text_Slashes(undashed, stripped, slashes) ==
    normalize_ocr_ingredient_text_Rest(undashed, slashes, LStrip(DropChars(stripped, slashes)))

normalize_ocr_ingredient_text_Slashed(undashed, stripped) ==
    normalize_ocr_ingredient_text_Slashes(undashed, stripped, LeadingRun(stripped, {"/"}))

normalize_ocr_ingredient_text_Undashed(undashed) ==
    normalize_ocr_ingredient_text_Slashed(undashed, LStrip(undashed))

\* the leading dashes go
normalize_ocr_ingredient_text_Dashes(text, stripped, dashes) ==
    normalize_ocr_ingredient_text_Undashed(IF dashes > 0 THEN LStrip(DropChars(stripped, dashes)) ELSE text)

normalize_ocr_ingredient_text_Dashed(text, stripped) ==
    normalize_ocr_ingredient_text_Dashes(text, stripped, LeadingRun(stripped, {"-"}))

normalize_ocr_ingredient_text(text) ==
    normalize_ocr_ingredient_text_Dashed(text, LStrip(text))

\* A space is put between a digit and a letter that touch.
RECURSIVE SpaceDigitsFromLetters(_, _, _)
SpaceDigitsFromLetters(s, lo, hi) ==
    IF lo > hi THEN ""
    ELSE IF lo = hi
         THEN LET a == CharAt(s, lo)
                  b == CharAt(s, lo + 1)
              IN  IF /\ lo < Len(s)
                     /\ \/ a \in DigitChars /\ IsAlphaChar(b)
                        \/ IsAlphaChar(a) /\ b \in DigitChars
                  THEN a \o " " ELSE a
    ELSE SpaceDigitsFromLetters(s, lo, (lo + hi) \div 2)
             \o SpaceDigitsFromLetters(s, (lo + hi) \div 2 + 1, hi)

\* re.sub(r"(?<=[A-Za-z])\s*/\s*(?=\d)", " / ", s) from position i on.
RECURSIVE SpaceSlashesFrom(_, _)
SpaceSlashesFrom(s, i) ==
    LET Gaps(first, rest, gap) ==
            SubSeq(s, i, first) \o " / "
                \o SpaceSlashesFrom(s, first + gap + 1
                                           + LeadingRun(DropChars(rest, gap + 1), {" "}) + 1)
        Rest(first, rest) == Gaps(first, rest, LeadingRun(rest, {" "}))
        From(at) ==
            IF at = {} THEN SubSeq(s, i, Len(s))
            ELSE Rest(CHOOSE k \in at : \A other \in at : k <= other,
                      DropChars(s, CHOOSE k \in at : \A other \in at : k <= other))
    IN  From({k \in i..Len(s) : IsAlphaChar(CharAt(s, k))
                                   /\ StartsWithSlashDigit(DropChars(s, k))})

normalize_quantity_unit_spacing(text) ==
    clean_text(SpaceSlashesFrom(SpaceDigitsFromLetters(text, 1, Len(text)), 1))

NoQuantity == <<>>

\* A quantity payload: the value rounded, in ten-thousandths; upperValue is
\* <<>> for None.
Quantity(value, upperValue, unit) ==
    [value |-> RoundValue(value),
     upperValue |-> IF upperValue = NoValue THEN <<>> ELSE <<RoundValue(upperValue)>>,
     unit |-> unit]

\* The result of _parse_ingredient_text; note is always None in the source.
Parsed(name, quantity, additionalQuantities) ==
    [name |-> name, quantity |-> quantity, additionalQuantities |-> additionalQuantities]

RECURSIVE JoinWords(_)
JoinWords(words) ==
    IF words = <<>> THEN ""
    ELSE IF Len(words) = 1 THEN words[1]
    ELSE words[1] \o " " \o JoinWords(Tail(words))

\* str.split(sep): the parts of s between the separators.
RECURSIVE SplitOn(_, _)
SplitOn(s, sep) ==
    LET at == FirstIndexOf(s, sep)
    IN  IF at = 0 THEN <<s>>
        ELSE <<SubSeq(s, 1, at - 1)>> \o SplitOn(DropChars(s, at + Len(sep) - 1), sep)

LStripOutside(s, keep) == DropChars(s, LeadingRunOutside(s, keep))

RStripOutside(s, keep) == SubSeq(s, 1, Len(s) - TrailingRunOutside(s, keep))

\* A token with letters is a number for float() only as "inf", "nan" and the
\* like, which the lines of recipes do not hold.
is_quantity_prefix_token_keep == UpperChars \cup LowerChars \cup DigitChars \cup {"/", ".", "-"}

is_quantity_prefix_token_Cleaned(cleaned) ==
    IF cleaned = "" THEN FALSE
    ELSE parse_quantity_value(cleaned) # NoValue \/ parse_unit_token(cleaned) # NoUnit

is_quantity_prefix_token_Stripped(stripped) ==
    IF stripped = "" THEN FALSE
    ELSE IF stripped = "/" THEN TRUE
    ELSE is_quantity_prefix_token_Cleaned(RStripOutside(LStripOutside(stripped, is_quantity_prefix_token_keep), is_quantity_prefix_token_keep))

is_quantity_prefix_token(token) ==
    is_quantity_prefix_token_Stripped(Strip(token))

\* The loop of _parse_quantity_segment from token idx on.
RECURSIVE SegmentQuantitiesFrom(_, _)
SegmentQuantitiesFrom_With(tokens, value, after, parsed_unit) ==
    <<Quantity(value, NoValue,
               IF parsed_unit # NoUnit THEN parsed_unit ELSE "whole")>>
        \o SegmentQuantitiesFrom(tokens,
               IF parsed_unit # NoUnit THEN after + 1 ELSE after)

SegmentQuantitiesFrom_Value(tokens, value, after) ==
    IF value = NoValue THEN <<>>
    ELSE SegmentQuantitiesFrom_With(tokens, value, after,
              IF after <= Len(tokens) THEN parse_unit_token(tokens[after])
              ELSE NoUnit)

SegmentQuantitiesFrom_Mixed(tokens, idx, mixed_value) ==
    IF mixed_value # NoValue THEN SegmentQuantitiesFrom_Value(tokens, mixed_value, idx + 2)
    ELSE SegmentQuantitiesFrom_Value(tokens, parse_quantity_value(tokens[idx]), idx + 1)

SegmentQuantitiesFrom(tokens, idx) ==
    IF idx > Len(tokens) THEN <<>>
    ELSE
         SegmentQuantitiesFrom_Mixed(tokens, idx, IF idx + 1 <= Len(tokens) /\ parse_unit_token(tokens[idx + 1]) = NoUnit
               THEN parse_quantity_value(tokens[idx] \o " " \o tokens[idx + 1])
               ELSE NoValue)

parse_quantity_segment(segment_text) == SegmentQuantitiesFrom(Words(segment_text), 1)

\* The number of leading tokens that are quantity prefix tokens.
RECURSIVE PrefixTokens(_)
PrefixTokens(tokens) ==
    IF tokens # <<>> /\ is_quantity_prefix_token(Head(tokens))
    THEN 1 + PrefixTokens(Tail(tokens)) ELSE 0

RECURSIVE Flatten(_)
Flatten(seqs) == IF seqs = <<>> THEN <<>> ELSE Head(seqs) \o Flatten(Tail(seqs))

\* The parsers return <<>> for None and <<Parsed(...)>> otherwise.
parse_slash_quantity_ingredient_Named(ingredient_name, quantities) ==
    <<Parsed(ingredient_name, quantities[1], Tail(quantities))>>

parse_slash_quantity_ingredient_Quantities(ingredient_name, parsed) ==
    IF \E k \in DOMAIN parsed : parsed[k] = <<>> THEN <<>>
    ELSE parse_slash_quantity_ingredient_Named(ingredient_name, Flatten(parsed))

parse_slash_quantity_ingredient_Segments(ingredient_name, segments) ==
    IF Len(segments) < 2 THEN <<>>
    ELSE parse_slash_quantity_ingredient_Quantities(ingredient_name,
                    [k \in DOMAIN segments |-> parse_quantity_segment(segments[k])])

parse_slash_quantity_ingredient_Stripped(parts) ==
    SelectSeq([k \in DOMAIN parts |-> Strip(parts[k])], LAMBDA segment : segment # "")

parse_slash_quantity_ingredient_Prefix(tokens, split_at, prefix_tokens, ingredient_name) ==
    IF split_at = 0 \/ \A k \in 1..split_at : prefix_tokens[k] # "/" THEN <<>>
    ELSE IF split_at >= Len(tokens) \/ ingredient_name = "" THEN <<>>
    ELSE parse_slash_quantity_ingredient_Segments(ingredient_name, parse_slash_quantity_ingredient_Stripped(SplitOn(JoinWords(prefix_tokens), "/")))

parse_slash_quantity_ingredient_SplitAt(tokens, split_at) ==
    parse_slash_quantity_ingredient_Prefix(tokens, split_at, SubSeq(tokens, 1, split_at),
           clean_text(JoinWords(SubSeq(tokens, split_at + 1, Len(tokens)))))

parse_slash_quantity_ingredient_Tokens(cleaned, tokens) ==
    IF ~Contains(cleaned, "/") \/ Len(tokens) < 4 THEN <<>>
    ELSE parse_slash_quantity_ingredient_SplitAt(tokens, PrefixTokens(tokens))

parse_slash_quantity_ingredient(cleaned) ==
    parse_slash_quantity_ingredient_Tokens(cleaned, Words(cleaned))

\* The length of a match of r"[A-Za-z]+[\.,]?" at the start of s that is
\* followed by a space, or 0.
UnitWordLen(s) ==
    LET word == LeadingRun(s, UpperChars \cup LowerChars)
    IN  IF word = 0 THEN 0
        ELSE IF (LiteralAt(s, word + 1, ".") \/ LiteralAt(s, word + 1, ","))
                    /\ LiteralAt(s, word + 2, " ")
             THEN word + 1
        ELSE IF LiteralAt(s, word + 1, " ") THEN word
        ELSE 0

\* A quantity expression at the start of s that is followed by blanks: the
\* length of the run of quantity characters, or 0.
QuantityRunLen(s) ==
    LET run == LeadingRun(s, QuantityChars)
    IN  IF run > 0 /\ LiteralAt(s, run, " ") /\ Strip(SubSeq(s, 1, run)) # ""
        THEN run ELSE 0

ValueAtMost(a, b) == a[1] * b[2] <= b[1] * a[2]

\* r"^([A-Za-z]+[\.,]?)(?:\s+(.*))?$" on the rest of an ingredient line:
\* <<>> for no match, <<first word, text after it>> otherwise.
NextWord_word(remaining) == LeadingRun(remaining, UpperChars \cup LowerChars)

NextWord_punct(remaining) ==
            IF LiteralAt(remaining, NextWord_word(remaining) + 1, ".") \/ LiteralAt(remaining, NextWord_word(remaining) + 1, ",")
    THEN 1 ELSE 0

NextWord(remaining) ==
    IF NextWord_word(remaining) = 0 THEN <<>>
    ELSE IF NextWord_word(remaining) + NextWord_punct(remaining) = Len(remaining) \/ LiteralAt(remaining, NextWord_word(remaining) + NextWord_punct(remaining) + 1, " ")
         THEN <<SubSeq(remaining, 1, NextWord_word(remaining) + NextWord_punct(remaining)),
                Strip(DropChars(remaining, NextWord_word(remaining) + NextWord_punct(remaining)))>>
    ELSE IF NextWord_word(remaining) = Len(remaining) \/ LiteralAt(remaining, NextWord_word(remaining) + 1, " ")
         THEN <<SubSeq(remaining, 1, NextWord_word(remaining)), Strip(DropChars(remaining, NextWord_word(remaining)))>>
    ELSE <<>>

\* The unit and the name when the word after the quantity is unit_text and
\* the text after it is remaining.
UnitAndName_Whole(name) == [unit |-> "whole", name |-> name]

UnitAndName_NextUnit(unit_text, remaining, next, next_unit) ==
    IF next_unit # NoUnit
    THEN [unit |-> next_unit,
          name |-> clean_text(unit_text \o " " \o clean_text(next[2]))]
    ELSE UnitAndName_Whole(clean_text(unit_text \o " " \o remaining))

UnitAndName_Next(unit_text, remaining, next) ==
    IF next = <<>> THEN UnitAndName_Whole(clean_text(unit_text \o " " \o remaining))
    ELSE UnitAndName_NextUnit(unit_text, remaining, next, parse_unit_token(Strip(next[1])))

UnitAndName_Unit(unit_text, remaining, cleaned, parsed_unit) ==
    IF parsed_unit # NoUnit
    THEN [unit |-> parsed_unit, name |-> IF remaining # "" THEN remaining ELSE cleaned]
    ELSE IF unit_text # "" THEN UnitAndName_Next(unit_text, remaining, NextWord(remaining))
    ELSE UnitAndName_Whole(IF remaining # "" THEN remaining ELSE cleaned)

UnitAndName(unit_text, remaining, cleaned) ==
    UnitAndName_Unit(unit_text, remaining, cleaned, IF unit_text = "" THEN NoUnit ELSE parse_unit_token(unit_text))

\* The match of the pattern of _parse_range_ingredient, the joiner being "to"
\* or "-": <<>> or <<[lower_text, upper_text, unit_text, remaining]>>.
RangeMatch_OrElse(match, other) == IF match # <<>> THEN match ELSE other

RangeMatch_ToUnit(cleaned, run, afterTo, upperRun, toUnit) ==
    IF upperRun > 0 /\ toUnit > 0
    THEN <<[lower_text |-> Strip(SubSeq(cleaned, 1, run)),
            upper_text |-> Strip(SubSeq(afterTo, 1, upperRun)),
            unit_text |-> Strip(SubSeq(afterTo, upperRun + 1, upperRun + toUnit)),
            remaining |-> clean_text(DropChars(afterTo, upperRun + toUnit))]>>
    ELSE <<>>

RangeMatch_ToUpper(cleaned, run, afterTo, upperRun) ==
    RangeMatch_ToUnit(cleaned, run, afterTo, upperRun, UnitWordLen(DropChars(afterTo, upperRun)))

RangeMatch_To(cleaned, run, after) ==
    IF run > 0 /\ StartsWith(Lower(after), "to")
    THEN RangeMatch_ToUpper(cleaned, run, DropChars(after, 2), QuantityRunLen(DropChars(after, 2)))
    ELSE <<>>

RangeMatch_DashUnit(cleaned, run, after, dash, dashUnit) ==
    IF dashUnit > 0
    THEN <<[lower_text |-> Strip(SubSeq(cleaned, 1, dash - 1)),
            upper_text |-> Strip(SubSeq(cleaned, dash + 1, run)),
            unit_text |-> Strip(SubSeq(after, 1, dashUnit)),
            remaining |-> clean_text(DropChars(after, dashUnit))]>>
    ELSE <<>>

RangeMatch_Dash(cleaned, run, after, dashes) ==
    IF dashes # {} /\ LiteralAt(cleaned, run, " ")
    THEN RangeMatch_DashUnit(cleaned, run, after, CHOOSE k \in dashes : \A other \in dashes : other <= k,
                  UnitWordLen(after))
    ELSE <<>>

RangeMatch_After(cleaned, run, after) ==
    RangeMatch_OrElse(RangeMatch_To(cleaned, run, after),
           RangeMatch_Dash(cleaned, run, after, {k \in 2..run : CharAt(cleaned, k) = "-"
                                /\ Strip(SubSeq(cleaned, k + 1, run)) # ""}))

RangeMatch_Run(cleaned, run) == RangeMatch_After(cleaned, run, DropChars(cleaned, run))

RangeMatch(cleaned) ==
    RangeMatch_Run(cleaned, LeadingRun(cleaned, QuantityChars))

parse_range_ingredient_Ordered(lower, upper, resolved) ==
    <<Parsed(resolved.name, Quantity(lower, upper, resolved.unit), <<>>)>>

parse_range_ingredient_Resolved(lower_value, upper_value, resolved) ==
    IF ValueAtMost(lower_value, upper_value)
    THEN parse_range_ingredient_Ordered(lower_value, upper_value, resolved)
    ELSE parse_range_ingredient_Ordered(upper_value, lower_value, resolved)

parse_range_ingredient_Values(cleaned, match, lower_value, upper_value) ==
    IF lower_value = NoValue \/ upper_value = NoValue THEN <<>>
    ELSE IF match.remaining = "" THEN <<>>
    ELSE parse_range_ingredient_Resolved(lower_value, upper_value,
                  UnitAndName(match.unit_text, match.remaining, cleaned))

parse_range_ingredient_Matched(cleaned, match) ==
    parse_range_ingredient_Values(cleaned, match, parse_quantity_value(match.lower_text),
           parse_quantity_value(match.upper_text))

parse_range_ingredient_Match(cleaned, matches) ==
    IF matches = <<>> THEN <<>> ELSE parse_range_ingredient_Matched(cleaned, matches[1])

parse_range_ingredient(cleaned) ==
    parse_range_ingredient_Match(cleaned, RangeMatch(cleaned))

\* The match of the pattern of _parse_mixed_unit_ingredient: <<>> or
\* <<[first_qty, first_unit, second_qty, second_unit, remaining]>>.
MixedMatch_Rest(after, letters, unit) ==
    IF unit >= letters THEN LStrip(DropChars(after, unit)) ELSE DropChars(after, unit)

MixedMatch_Second(rest, joiner) == LStrip(DropChars(rest, Len(joiner)))

MixedMatch_SecondFits(second) ==
    /\ QuantityRunLen(second) > 0
       \/ QuantityRunLen(" " \o second) > 1
    /\ UnitWordLen(DropChars(second, LeadingRun(second, QuantityChars))) > 0

MixedMatch_Joined(rest, joiner) ==
    StartsWith(Lower(rest), joiner) /\ MixedMatch_SecondFits(MixedMatch_Second(rest, joiner))

\* the first unit, then the joiner apart from it or glued to its end
MixedMatch_Splits(after, letters, punct) ==
    {<<unit, joiner>> \in (1..(letters + 1)) \X {"plus", "and", "&", "+"} :
        /\ unit = letters + punct \/ unit = letters
           \/ unit + Len(joiner) = letters
        /\ MixedMatch_Joined(MixedMatch_Rest(after, letters, unit), joiner)}

MixedMatch_Units(cleaned, run, after, best, second, secondRun, secondUnit) ==
    <<[first_qty |-> Strip(SubSeq(cleaned, 1, run)),
       first_unit |-> Strip(SubSeq(after, 1, best[1])),
       second_qty |-> Strip(SubSeq(second, 1, secondRun)),
       second_unit |-> Strip(SubSeq(second, secondRun + 1, secondRun + secondUnit)),
       remaining |-> clean_text(DropChars(second, secondRun + secondUnit))]>>

MixedMatch_SecondRun(cleaned, run, after, best, second, secondRun) ==
    MixedMatch_Units(cleaned, run, after, best, second, secondRun,
          UnitWordLen(DropChars(second, secondRun)))

MixedMatch_Best(cleaned, run, after, best, second) ==
    MixedMatch_SecondRun(cleaned, run, after, best, second, LeadingRun(second, QuantityChars))

MixedMatch_Split(cleaned, run, after, letters, best) ==
    MixedMatch_Best(cleaned, run, after, best, MixedMatch_Second(MixedMatch_Rest(after, letters, best[1]), best[2]))

MixedMatch_Letters(cleaned, run, after, letters, splits) ==
    IF run = 0 \/ letters = 0 \/ splits = {} THEN <<>>
    ELSE MixedMatch_Split(cleaned, run, after, letters,
               CHOOSE split \in splits : \A other \in splits : other[1] <= split[1])

MixedMatch_After(cleaned, run, after, letters) ==
    MixedMatch_Letters(cleaned, run, after, letters,
            MixedMatch_Splits(after, letters,
                   IF LiteralAt(after, letters + 1, ".")
                          \/ LiteralAt(after, letters + 1, ",")
                   THEN 1 ELSE 0))

MixedMatch_Run(cleaned, run, after) ==
    MixedMatch_After(cleaned, run, after, LeadingRun(after, UpperChars \cup LowerChars))

MixedMatch_Runs(cleaned, run) == MixedMatch_Run(cleaned, run, DropChars(cleaned, run))

MixedMatch(cleaned) ==
    MixedMatch_Runs(cleaned, QuantityRunLen(cleaned))

parse_mixed_unit_ingredient_Units(match, first_value, second_value, normalized_first, normalized_second) ==
    IF first_value = NoValue \/ second_value = NoValue THEN <<>>
    ELSE IF normalized_first = NoUnit \/ normalized_second = NoUnit THEN <<>>
    ELSE <<Parsed(match.remaining,
                  Quantity(first_value, NoValue, normalized_first),
                  <<Quantity(second_value, NoValue, normalized_second)>>)>>

parse_mixed_unit_ingredient_Matched(match) ==
    IF match.remaining = "" THEN <<>>
    ELSE parse_mixed_unit_ingredient_Units(match, parse_quantity_value(match.first_qty),
               parse_quantity_value(match.second_qty),
               parse_unit_token(match.first_unit),
               parse_unit_token(match.second_unit))

parse_mixed_unit_ingredient_Match(matches) ==
    IF matches = <<>> THEN <<>> ELSE parse_mixed_unit_ingredient_Matched(matches[1])

parse_mixed_unit_ingredient(cleaned) ==
    parse_mixed_unit_ingredient_Match(MixedMatch(cleaned))

\* The match of r"^([\d\s/\.-]+)\s*([A-Za-z]+[\.,]?)?\s+(.*)$": <<>> or
\* <<[qty_text, unit_text, remaining]>>.
GenericMatch(cleaned) ==
    LET run == LeadingRun(cleaned, QuantityChars)
        after == DropChars(cleaned, run)
        unit == UnitWordLen(after)
        blanks == {k \in 2..run : CharAt(cleaned, k) = " "}
        blank == CHOOSE k \in blanks : \A other \in blanks : other <= k
    IN  IF run = 0 THEN <<>>
        ELSE IF unit > 0
             THEN <<[qty_text |-> Strip(SubSeq(cleaned, 1, run)),
                     unit_text |-> Strip(SubSeq(after, 1, unit)),
                     remaining |-> Strip(DropChars(after, unit))]>>
        ELSE IF blanks # {}
             THEN <<[qty_text |-> Strip(SubSeq(cleaned, 1, blank - 1)),
                     unit_text |-> "",
                     remaining |-> Strip(DropChars(cleaned, blank))]>>
        ELSE <<>>

\* r"^\d+\s*[.)]\s+[A-Za-z]" matches: a numbered instruction.
IsNumberedInstruction(cleaned) ==
    LET digits == LeadingRun(cleaned, DigitChars)
        rest == LStrip(DropChars(cleaned, digits))
    IN  /\ digits > 0
        /\ rest # "" /\ Head(rest) \in {".", ")"}
        /\ LiteralAt(rest, 2, " ")
        /\ LStrip(Tail(rest)) # "" /\ IsAlphaChar(Head(LStrip(Tail(rest))))

parse_ingredient_text_OrElse(parsed, other) == IF parsed # <<>> THEN parsed[1] ELSE other

parse_ingredient_text_Resolved(value, resolved) ==
    Parsed(resolved.name, Quantity(value, NoValue, resolved.unit), <<>>)

parse_ingredient_text_Value(cleaned, match, value) ==
    IF value = NoValue THEN Parsed(cleaned, NoQuantity, <<>>)
    ELSE parse_ingredient_text_Resolved(value, UnitAndName(match.unit_text, match.remaining, cleaned))

parse_ingredient_text_Generic(cleaned, matches) ==
    IF matches = <<>> THEN Parsed(cleaned, NoQuantity, <<>>)
    ELSE parse_ingredient_text_Value(cleaned, matches[1], parse_quantity_value(matches[1].qty_text))

parse_ingredient_text_Cleaned(cleaned) ==
    IF IsNumberedInstruction(cleaned) THEN Parsed(cleaned, NoQuantity, <<>>)
    ELSE parse_ingredient_text_OrElse(parse_range_ingredient(cleaned),
         parse_ingredient_text_OrElse(parse_mixed_unit_ingredient(cleaned),
         parse_ingredient_text_OrElse(parse_slash_quantity_ingredient(cleaned),
                parse_ingredient_text_Generic(cleaned, GenericMatch(cleaned)))))

parse_ingredient_text(raw) ==
    parse_ingredient_text_Cleaned(normalize_quantity_unit_spacing(
                normalize_ocr_ingredient_text(clean_text(raw))))

\* The length of a match at position i of s of the words joined by r"\s+",
\* or 0.
RECURSIVE PhraseLen(_, _, _)
PhraseLen(s, i, words) ==
    LET word == Head(words)
        blanks == LeadingRun(DropChars(s, i + Len(word) - 1), {" "})
        rest == PhraseLen(s, i + Len(word) + blanks, Tail(words))
    IN  IF ~LiteralAt(s, i, word) THEN 0
        ELSE IF Len(words) = 1 THEN Len(word)
        ELSE IF blanks = 0 \/ rest = 0 THEN 0
        ELSE Len(word) + blanks + rest

\* Where r"\bw1\s+w2...\b" matches in s, whatever the case of its letters.
PhraseStarts(s, words) ==
    {i \in 1..Len(s) : /\ BoundaryAfter(s, i - 1)
                       /\ PhraseLen(Lower(s), i, words) > 0
                       /\ BoundaryAfter(s, i + PhraseLen(Lower(s), i, words) - 1)}

\* re.sub(pattern + r".*$", new, s) for a pattern that matches at starts.
CutFrom(s, starts, new) ==
    IF starts = {} THEN s
    ELSE SubSeq(s, 1, (CHOOSE i \in starts : \A other \in starts : i <= other) - 1) \o new

\* re.sub(r"\bw\b", new, s, flags=re.IGNORECASE) for the words w of forms.
RECURSIVE ReplaceWordsIgnoringCase(_, _, _, _)
ReplaceWordsIgnoringCase(s, i, forms, new) ==
    LET at == {k \in i..Len(s) : \E form \in forms : WordAt(Lower(s), k, form)}
        first == CHOOSE k \in at : \A other \in at : k <= other
        form == CHOOSE hit \in forms : WordAt(Lower(s), first, hit)
    IN  IF at = {} THEN SubSeq(s, i, Len(s))
        ELSE SubSeq(s, i, first - 1) \o new
                 \o ReplaceWordsIgnoringCase(s, first + Len(form), forms, new)

\* Where r"\band\s+red\b(?:\s+[A-Za-z]{1,4})?\s*$" matches.
AndRedStarts_rest(s, i) == DropChars(s, i + PhraseLen(Lower(s), i, <<"and", "red">>) - 1)

AndRedStarts_word(s, i) == Strip(AndRedStarts_rest(s, i))

AndRedStarts(s) ==
    {i \in PhraseStarts(s, <<"and", "red">>) : \/ AndRedStarts_word(s, i) = ""
         \/ /\ StartsWith(AndRedStarts_rest(s, i), " ")
            /\ Len(AndRedStarts_word(s, i)) <= 4
            /\ \A k \in 1..Len(AndRedStarts_word(s, i)) : IsAlphaChar(CharAt(AndRedStarts_word(s, i), k))}

\* Where r"\bchopped\s+immediat\w*\b" matches.
ChoppedStarts(s) ==
    {i \in 1..Len(s) : /\ BoundaryAfter(s, i - 1)
                       /\ PhraseLen(Lower(s), i, <<"chopped", "immediat">>) > 0}

\* re.sub(r"\blemon\s+z[e3](?:st)?\s+(?=fresh parsley\b)", "", s, re.IGNORECASE)
LemonZestLen_Blanks(s, i, len) == LeadingRun(DropChars(s, i + len - 1), {" "})

LemonZestLen_ParsleyAt(s, lowered, at) ==
    \/ WordAt(lowered \o " ", at, "fresh parsley")
    \/ /\ LiteralAt(lowered, at, "fresh parsley")
       /\ BoundaryAfter(s, at + 12)

LemonZestLen_Fits(s, i, lowered, len, blanks) ==
    blanks > 0 /\ LemonZestLen_ParsleyAt(s, lowered, i + len + blanks)

LemonZestLen_Fit(s, i, len) == len + LemonZestLen_Blanks(s, i, len)

LemonZestLen_Among(s, i, fits) ==
    IF ~BoundaryAfter(s, i - 1) \/ fits = {} THEN 0
    ELSE LemonZestLen_Fit(s, i, CHOOSE fit \in fits : TRUE)

LemonZestLen_Lowered(s, i, lowered) ==
    LemonZestLen_Among(s, i, {len \in {PhraseLen(lowered, i, <<"lemon", zest>>) :
                       zest \in {"zest", "z3st", "ze", "z3"}} \ {0} :
              LemonZestLen_Fits(s, i, lowered, len, LemonZestLen_Blanks(s, i, len))})

LemonZestLen(s, i) ==
    LemonZestLen_Lowered(s, i, Lower(s))

RECURSIVE DropLemonZestFrom(_, _)
DropLemonZestFrom_First(s, i, first) ==
    SubSeq(s, i, first - 1) \o DropLemonZestFrom(s, first + LemonZestLen(s, first))

DropLemonZestFrom_From(s, i, at) ==
    IF at = {} THEN SubSeq(s, i, Len(s))
    ELSE DropLemonZestFrom_First(s, i, CHOOSE k \in at : \A other \in at : k <= other)

DropLemonZestFrom(s, i) ==
    DropLemonZestFrom_From(s, i, {k \in i..Len(s) : LemonZestLen(s, k) > 0})

\* Where r"\babout\s+\d+\b" matches.
AboutNumberStarts(s) ==
    {i \in 1..Len(s) :
        LET blanks == LeadingRun(DropChars(s, i + 4), {" "})
            digits == LeadingRun(DropChars(s, i + 4 + blanks), DigitChars)
        IN  /\ BoundaryAfter(s, i - 1)
            /\ LiteralAt(Lower(s), i, "about")
            /\ blanks > 0 /\ digits > 0
            /\ BoundaryAfter(s, i + 4 + blanks + digits)}

NAME_EDGE_CHARS == {" ", ",", ";", ":", "-"}

\* s.strip(" ,;:-")
StripEdges(s) ==
    LET t == DropChars(s, LeadingRun(s, NAME_EDGE_CHARS))
    IN  SubSeq(t, 1, Len(t) - TrailingRun(t, NAME_EDGE_CHARS))

\* The substitutions for "to taste salt ..." and "to taste and" change
\* nothing that the one for "to taste ..." leaves: it ends the name there.
\* a lone letter at the end goes
sanitize_ingredient_name_Unlettered(body) ==
    clean_text(StripEdges(IF body # "" /\ IsAlphaChar(CharAt(body, Len(body)))
                              /\ BoundaryAfter(body, Len(body) - 1)
                          THEN SubSeq(body, 1, Len(body) - 1) ELSE body))

sanitize_ingredient_name_Unabout(unminuted) ==
    CutFrom(unminuted, AboutNumberStarts(unminuted), "")

sanitize_ingredient_name_Unminuted(unaside) ==
    sanitize_ingredient_name_Unabout(CutFrom(unaside,
                    PhraseStarts(unaside, <<"minutes">>)
                        \cup PhraseStarts(unaside, <<"minute">>), ""))

sanitize_ingredient_name_Unaside(uninstructed) ==
    sanitize_ingredient_name_Unminuted(CutFrom(uninstructed, PhraseStarts(uninstructed, <<"set aside">>), ""))

sanitize_ingredient_name_Uninstructed(unzested) ==
    sanitize_ingredient_name_Unaside(CutFrom(unzested,
                    PhraseStarts(unzested, <<"package instructions">>)
                        \cup PhraseStarts(unzested, <<"package instruction">>), ""))

sanitize_ingredient_name_Unzested(unzested, instructed) ==
    sanitize_ingredient_name_Unlettered(StripEdges(CollapseSpaces(IF instructed THEN sanitize_ingredient_name_Uninstructed(unzested)
                                         ELSE unzested)))

sanitize_ingredient_name_Unchopped(unsauced, instructed) ==
    sanitize_ingredient_name_Unzested(DropLemonZestFrom(CutFrom(unsauced, ChoppedStarts(unsauced), ""), 1),
             instructed)

sanitize_ingredient_name_Unsauced(unred, instructed) ==
    sanitize_ingredient_name_Unchopped(CutFrom(unred, PhraseStarts(unred, <<"sauce">>), ""), instructed)

sanitize_ingredient_name_Unred(served, instructed) ==
    sanitize_ingredient_name_Unsauced(CutFrom(served, AndRedStarts(served), ""), instructed)

sanitize_ingredient_name_Served(tasted, instructed) ==
    sanitize_ingredient_name_Unred(CutFrom(tasted, PhraseStarts(tasted, <<"for serving">>), "for serving"),
          instructed)

sanitize_ingredient_name_Tasted(unpackaged, instructed) ==
    sanitize_ingredient_name_Served(CutFrom(unpackaged, PhraseStarts(unpackaged, <<"to", "taste">>), "to taste"),
           instructed)

sanitize_ingredient_name_Unpacked(unpacked, instructed) ==
    sanitize_ingredient_name_Tasted(ReplaceWordsIgnoringCase(unpacked, 1, {"package"}, ""), instructed)

sanitize_ingredient_name_Lowered(cleaned, lowered) ==
    sanitize_ingredient_name_Unpacked(IF Contains(lowered, "package and")
             THEN ReplaceWordsIgnoringCase(cleaned, 1, {"package and"}, "and")
             ELSE cleaned,
             ContainsAnyWord(lowered, {"package instructions", "package instruction",
                                       "set aside", "minutes", "minute"}))

sanitize_ingredient_name_Cleaned(cleaned) ==
    IF cleaned = "" THEN "" ELSE sanitize_ingredient_name_Lowered(cleaned, Lower(cleaned))

sanitize_ingredient_name(name) ==
    sanitize_ingredient_name_Cleaned(clean_text(name))

DROP_WORDS ==
    {"skillet", "prepare", "serve", "sprinkle", "immediately", "return the",
     "set aside", "minutes", "minute"}

\* re.fullmatch(r"[A-Za-z]+\s+\d+", s)
IsWordThenNumber(s) ==
    LET word == LeadingRun(s, UpperChars \cup LowerChars)
        blanks == LeadingRun(DropChars(s, word), {" "})
        digits == LeadingRun(DropChars(s, word + blanks), DigitChars)
    IN  word > 0 /\ blanks > 0 /\ digits > 0 /\ word + blanks + digits = Len(s)

should_drop_ingredient_entry_Cleaned(quantity, cleaned) ==
    \/ cleaned = ""
    \/ is_ocr_artifact_line(cleaned)
    \/ extract_tips_remainder(cleaned) # <<>>
    \/ /\ quantity = NoQuantity
       /\ \/ looks_like_headerless_instruction(cleaned)
          \/ ContainsAnyWord(Lower(cleaned), DROP_WORDS)
          \/ IsWordThenNumber(cleaned)

should_drop_ingredient_entry(name, quantity) ==
    should_drop_ingredient_entry_Cleaned(quantity, clean_text(name))

\* ------------------------------------------------------ the documents
\* The lines of the documents assembled, in the order they have in a
\* document, and the label a classifier that makes no error gives each.
RecipeLines ==
    <<"Created by Ann", "Lemon Bars", "Serves 8", "Prep time: 10 minutes",
      "Ingredients:", "Main:", "2 cups sugar", "1 tsp salt", "Butter for the pan",
      "Instructions:", "1. Mix well. 2. Bake for 20 minutes.",
      "1. Bake for 20. Let cool.", "Whisk the eggs.", "Notes:", "Use ripe lemons",
      "- Lemon Tart">>

RightLabels ==
    <<"junk", "title", "junk", "junk",
      "header", "header", "ingredient", "ingredient", "ingredient",
      "header", "step",
      "step", "step", "header", "note",
      "note">>

\* The lines of the two pages that the documents are taken from: a recipe
\* as printed, and a scan with a credit line, a subsection, a step that
\* holds a number and a dashed note.
Pages ==
    {{"Lemon Bars", "Serves 8", "Ingredients:", "2 cups sugar", "1 tsp salt",
      "Butter for the pan", "Instructions:", "1. Mix well. 2. Bake for 20 minutes.",
      "Whisk the eggs.", "Notes:", "Use ripe lemons"},
     {"Created by Ann", "Lemon Bars", "Prep time: 10 minutes", "Main:", "1 tsp salt",
      "Instructions:", "1. Bake for 20. Let cool.", "Notes:", "- Lemon Tart"}}

\* The rows are lines of one page.
OnOnePage(rows) ==
    \E page \in Pages : \A k \in 1..Len(rows) : rows[k].text \in page

LineIndex(line) == CHOOSE k \in DOMAIN RecipeLines : RecipeLines[k] = line

RightLabel(line) == RightLabels[LineIndex(line)]

\* What add_ingredient appends for a parsed text, but for the section: <<>>
\* when the entry is dropped.
parsed_entry_Named(parsed, name) ==
    IF should_drop_ingredient_entry(name, parsed.quantity) THEN <<>>
    ELSE <<[name |-> name, quantity |-> parsed.quantity,
            additionalQuantities |-> parsed.additionalQuantities]>>

parsed_entry(parsed) ==
    parsed_entry_Named(parsed, sanitize_ingredient_name(parsed.name))

ingredient_entry(text) == parsed_entry(parse_ingredient_text(text))

\* What add_step appends for a text, but for the index and the section.
step_entry_Stripped(text, step_text) ==
    IF step_text = "" \/ is_ocr_artifact_line(step_text) THEN <<>>
    ELSE <<[text |-> step_text, timers |-> extract_timers(step_text)]>>

step_entry(text) ==
    step_entry_Stripped(text, strip_step_number_prefix(text))

\* What the functions of one text give on each line, worked out once.
OnRecipeLine_On(text, tips, parts, parsed) ==
    [text |-> text,
     metadata |-> extract_metadata_line(text),
     artifact |-> is_ocr_artifact_line(text),
     tips |-> IF tips = <<>> THEN <<>> ELSE <<normalize_note_text(tips[1])>>,
     note_fragment |-> looks_like_note_fragment(text),
     step_fragment |-> looks_like_step_fragment(text),
     note_line |-> normalize_note_text(text),
     recipe_title |-> looks_like_recipe_title(text),
     section_type |-> header_section_type(text),
     subsection |-> IF looks_like_subsection_header(text)
                    THEN <<clean_text(SubSeq(text, 1,
                                             Len(text) - TrailingRun(text, {":"})))>>
                    ELSE <<>>,
     headerless_instruction |-> looks_like_headerless_instruction(text),
     ingredient_line |-> looks_like_ingredient_line(text),
     parsed |-> parsed,
     parts |-> parts,
     step_numbers |-> StepNumbersFrom(text, 1),
     ingredient |-> parsed_entry(parsed),
     step |-> step_entry(text),
     numbered_steps |-> Flatten([k \in 1..Len(parts) |-> step_entry(parts[k])])]

OnRecipeLine_Cleaned(text) ==
    OnRecipeLine_On(text, extract_tips_remainder(text), split_numbered_steps(text),
       parse_ingredient_text(text))

OnRecipeLine ==
    [line \in {RecipeLines[k] : k \in DOMAIN RecipeLines} |->
         OnRecipeLine_Cleaned(clean_text(line))]

STEP_JOINERS == {"and", "or", "then", "plus", "also"}

STEP_OPENERS == LowerChars \cup {"(", "\\", "[", "\"", "'", "/", "-"}

looks_like_step_continuation_Marked(rest) ==
    rest # "" /\ Head(rest) \in {".", ")"} /\ LiteralAt(rest, 2, " ")

looks_like_step_continuation_Numbered(curr, digits) ==
    digits > 0 /\ looks_like_step_continuation_Marked(LStrip(DropChars(curr, digits)))

looks_like_step_continuation_Cleaned(prev, curr) ==
    IF prev = "" \/ curr = "" THEN FALSE
    ELSE IF looks_like_step_continuation_Numbered(curr, LeadingRun(curr, DigitChars)) THEN FALSE
    ELSE IF looks_like_subsection_header(curr) THEN FALSE
    ELSE IF CharAt(prev, Len(prev)) \in {".", "!", "?"} THEN FALSE
    ELSE IF CharAt(prev, Len(prev)) \in {",", ";", "-", "/"} THEN TRUE
    ELSE IF CountChars(prev, {"("}) > CountChars(prev, {")"}) THEN TRUE
    ELSE IF StartsWithAnyWord(Lower(curr), STEP_JOINERS) THEN TRUE
    ELSE Head(curr) \in STEP_OPENERS

looks_like_step_continuation(previous_text, current_text) ==
    looks_like_step_continuation_Cleaned(clean_text(previous_text), clean_text(current_text))

\* The texts that the loop over the rows gives the lists of a recipe.
TextsOn(on_line) ==
    UNION {{on_line[line].text, on_line[line].note_line}
               \cup {on_line[line].tips[k] : k \in DOMAIN on_line[line].tips}
               \cup {on_line[line].ingredient[k].name : k \in DOMAIN on_line[line].ingredient}
               \cup {on_line[line].step[k].text : k \in DOMAIN on_line[line].step}
               \cup {on_line[line].numbered_steps[k].text :
                        k \in DOMAIN on_line[line].numbered_steps} :
           line \in DOMAIN on_line}

RecipeTexts == TextsOn(OnRecipeLine)

\* What the functions of one text give on each of these texts, worked out
\* once; continues holds the texts that the text continues as a step.
\* The assembler keeps the two tables with its state, as on_line and on_text;
\* the operators that follow take on_text, and work out what it does not hold.
OnTexts(texts) ==
    [text \in texts |->
        [clean |-> clean_text(text),
         lower |-> Lower(clean_text(text)),
         recipe_title |-> looks_like_recipe_title(text),
         timers |-> extract_timers(text),
         continues |-> {previous_text \in texts :
                           looks_like_step_continuation(previous_text, text)}]]

OnRecipeText == OnTexts(RecipeTexts)

CleanText(on_text, text) ==
    IF text \in DOMAIN on_text THEN on_text[text].clean ELSE clean_text(text)

LowerText(on_text, text) ==
    IF text \in DOMAIN on_text THEN on_text[text].lower ELSE Lower(clean_text(text))

\* The title, the texts of the rows and the notes are texts of the table.
IsRecipeTitle(on_text, text) == on_text[text].recipe_title

Timers(on_text, text) ==
    IF text \in DOMAIN on_text THEN on_text[text].timers ELSE extract_timers(text)

\* --------------------------------------------- wrapped lines, sections
\* An ingredient is [name, quantity, additionalQuantities, section] and a
\* step [index, text, timers, section]. A section is <<>> for None and
\* <<name>> otherwise.

NoSection == <<>>

IsStepContinuation(on_text, previous_text, current_text) ==
    IF previous_text \in DOMAIN on_text /\ current_text \in DOMAIN on_text
    THEN previous_text \in on_text[current_text].continues
    ELSE looks_like_step_continuation(previous_text, current_text)

RECURSIVE MergeStepsFrom(_, _, _, _)
MergeStepsFrom_Timed(on_text, index, text, section) ==
    [index |-> index, text |-> text, timers |-> Timers(on_text, text),
     section |-> section]

MergeStepsFrom_Joined(on_text, previous, text) ==
    MergeStepsFrom_Timed(on_text, previous.index,
          clean_text(CleanText(on_text, previous.text) \o " " \o text),
          previous.section)

MergeStepsFrom_Continues(on_text, steps, i, previous, text) ==
    /\ previous.section = steps[i].section
    /\ IsStepContinuation(on_text, previous.text, text)

MergeStepsFrom_Merged(on_text, steps, i, merged, text) ==
    IF text = "" THEN merged
    ELSE IF merged # <<>> /\ MergeStepsFrom_Continues(on_text, steps, i, merged[Len(merged)], text)
    THEN [merged EXCEPT ![Len(merged)] = MergeStepsFrom_Joined(on_text, merged[Len(merged)], text)]
    ELSE Append(merged, MergeStepsFrom_Timed(on_text, Len(merged), text, steps[i].section))

MergeStepsFrom(on_text, steps, i, merged) ==
    IF i > Len(steps) THEN merged
    ELSE
         MergeStepsFrom(on_text, steps, i + 1, MergeStepsFrom_Merged(on_text, steps, i, merged, CleanText(on_text, steps[i].text)))

merge_wrapped_steps_Renumbered(merged) ==
    [idx \in 1..Len(merged) |-> [merged[idx] EXCEPT !.index = idx - 1]]

merge_wrapped_steps(on_text, steps) ==
    merge_wrapped_steps_Renumbered(MergeStepsFrom(on_text, steps, 1, <<>>))

INGREDIENT_JOINERS == {"and", "or", "to", "for", "of", "with", "plus"}

looks_like_ingredient_continuation(on_text, previous, current) ==
    LET Ranged(curr_name, digits) ==
            /\ digits > 0
            /\ LiteralAt(curr_name, digits + 1, "-")
            /\ Len(curr_name) >= digits + 2
            /\ IsAlphaChar(CharAt(curr_name, digits + 2))
        Named(prev_name, curr_name) ==
            IF prev_name = "" \/ curr_name = "" THEN FALSE
            ELSE IF CharAt(prev_name, Len(prev_name)) \in {",", ";", "-", "(", "/"} THEN TRUE
            ELSE IF StartsWithAnyWord(Lower(curr_name), INGREDIENT_JOINERS) THEN TRUE
            ELSE IF Ranged(curr_name, LeadingRun(curr_name, DigitChars)) THEN TRUE
            ELSE Head(curr_name) \in LowerChars
    IN  IF previous.section # current.section THEN FALSE
        ELSE IF current.quantity # NoQuantity THEN FALSE
        ELSE IF current.additionalQuantities # <<>> THEN FALSE
        ELSE Named(CleanText(on_text, previous.name), CleanText(on_text, current.name))

RECURSIVE MergeIngredientsFrom(_, _, _, _)
MergeIngredientsFrom_Joined(on_text, merged, previous, name) ==
    [merged EXCEPT ![Len(merged)].name =
        clean_text(CleanText(on_text, previous.name) \o " " \o name)]

MergeIngredientsFrom_Normalized(on_text, merged, name, normalized) ==
    IF name = "" THEN merged
    ELSE IF /\ merged # <<>>
            /\ looks_like_ingredient_continuation(on_text, merged[Len(merged)],
                                                  normalized)
    THEN MergeIngredientsFrom_Joined(on_text, merged, merged[Len(merged)], name)
    ELSE Append(merged, normalized)

MergeIngredientsFrom_Merged(on_text, ingredients, i, merged, name) ==
    MergeIngredientsFrom_Normalized(on_text, merged, name, [ingredients[i] EXCEPT !.name = name])

MergeIngredientsFrom(on_text, ingredients, i, merged) ==
    IF i > Len(ingredients) THEN merged
    ELSE MergeIngredientsFrom(on_text, ingredients, i + 1,
                              MergeIngredientsFrom_Merged(on_text, ingredients, i, merged, CleanText(on_text, ingredients[i].name)))

merge_wrapped_ingredients(on_text, ingredients) ==
    MergeIngredientsFrom(on_text, ingredients, 1, <<>>)

\* re.sub(r"\([^)]*\)", "", s)
RECURSIVE DropParenthesised(_)
DropParenthesised(s) ==
    LET open == FirstIndexOf(s, "(")
        close == FirstIndexOf(DropChars(s, open), ")")
    IN  IF open = 0 \/ close = 0 THEN s
        ELSE SubSeq(s, 1, open - 1) \o DropParenthesised(DropChars(s, open + close))

\* The name of the section that the marker of an ingredient opens, or "".
SplitName_name(ingredient) == clean_text(Lower(ingredient.name))

SplitName_marker(ingredient) ==
    StripEdges(CollapseSpaces(DropParenthesised(SplitName_name(ingredient))))

SplitName(ingredient) ==
    IF SplitName_name(ingredient) = "" THEN ""
    ELSE IF SplitName_marker(ingredient) \in {"for the sauce", "for sauce", "sauce"} THEN "Sauce"
    ELSE IF SplitName_marker(ingredient) \in {"for serving", "to serve", "for garnish"} THEN "For Serving"
    ELSE ""

MinSplitIngredients == 6

\* The ingredients with the sections that _infer_sauce_section_split gives them.
infer_sauce_section_split_Split(ingredients, split_index, split_name) ==
    IF split_index < 2 \/ Len(ingredients) - split_index < 2 THEN ingredients
    ELSE [k \in 1..Len(ingredients) |->
             [ingredients[k] EXCEPT !.section =
                 IF k <= split_index THEN NoSection ELSE <<split_name>>]]

infer_sauce_section_split_Marker(ingredients, marker) ==
    infer_sauce_section_split_Split(ingredients, marker, SplitName(ingredients[marker]))

infer_sauce_section_split_Markers(ingredients, markers) ==
    IF markers = {} THEN ingredients
    ELSE infer_sauce_section_split_Marker(ingredients, CHOOSE k \in markers : \A other \in markers : k <= other)

infer_sauce_section_split(ingredients, steps) ==
    IF Len(ingredients) < MinSplitIngredients THEN ingredients
    ELSE IF \E k \in 1..Len(ingredients) : ingredients[k].section # NoSection
         THEN ingredients
    ELSE IF ~ContainsAnyWord(JoinWords([k \in 1..Len(steps) |-> Lower(steps[k].text)]),
                             {"sauce"})
         THEN ingredients
    ELSE infer_sauce_section_split_Markers(ingredients, {k \in 1..(Len(ingredients) - 2) : SplitName(ingredients[k]) # ""})

\* ------------------------------------------------ _assemble_app_recipe
NoRecipe == [title |-> ""]

AssemblerIdle ==
    [pc |-> "idle", rows |-> <<>>, title |-> "", current_section |-> "unknown",
     current_ingredient_section |-> NoSection, current_step_section |-> NoSection,
     ingredients |-> <<>>, steps |-> <<>>, notes |-> <<>>,
     parsed_ingredient_count |-> 0, extracted_yields |-> <<>>,
     prep_minutes |-> NoMinutes, cook_minutes |-> NoMinutes,
     total_minutes |-> NoMinutes, appended |-> <<>>, recipe |-> NoRecipe,
     on_line |-> <<>>, on_text |-> <<>>]

\* The state at the head of the loop over the rows, before the first row.
AssemblerStart_On(on_line) ==
    [AssemblerIdle EXCEPT !.pc = "rows", !.on_line = on_line,
                          !.on_text = OnTexts(TextsOn(on_line))]

AssemblerStart ==
    AssemblerStart_On(OnRecipeLine)

\* add_ingredient for a text whose ingredient_entry is entry.
add_ingredient(st, entry, section_name) ==
    IF entry = <<>> THEN st
    ELSE [st EXCEPT
             !.ingredients =
                 Append(@, [name |-> entry[1].name, quantity |-> entry[1].quantity,
                            additionalQuantities |-> entry[1].additionalQuantities,
                            section |-> section_name]),
             !.parsed_ingredient_count =
                 @ + (IF entry[1].quantity # NoQuantity THEN 1 ELSE 0)
                   + Len(entry[1].additionalQuantities)]

\* add_step on each of the texts of entries, in their order.
RECURSIVE add_steps(_, _, _)
add_steps(st, entries, section_name) ==
    IF entries = <<>> THEN st
    ELSE add_steps([st EXCEPT !.steps =
                       Append(@, [index |-> Len(st.steps), text |-> Head(entries).text,
                                  timers |-> Head(entries).timers,
                                  section |-> section_name])],
                   Tail(entries), section_name)

\* add_step for a text whose step_entry is entry.
add_step(st, entry, section_name) == add_steps(st, entry, section_name)

add_note(st, note_line) ==
    IF note_line # "" THEN [st EXCEPT !.notes = Append(@, note_line)] ELSE st

\* The body of the loop over the rows for a row labelled header, on being
\* what the functions of one text give on the text of the row.
assemble_header(st, on) ==
    IF on.section_type = "ingredients"
    THEN [st EXCEPT !.current_section = "ingredients",
                    !.current_ingredient_section = NoSection]
    ELSE IF on.section_type = "steps"
    THEN [st EXCEPT !.current_section = "steps", !.current_step_section = NoSection]
    ELSE IF on.section_type = "notes"
    THEN [st EXCEPT !.current_section = "notes"]
    ELSE IF on.subsection # <<>>
    THEN IF st.current_section = "steps"
         THEN [st EXCEPT !.current_step_section = on.subsection]
         ELSE IF st.current_section = "notes"
         THEN [st EXCEPT !.notes = Append(@, on.text)]
         ELSE [st EXCEPT !.current_section = "ingredients",
                         !.current_ingredient_section = on.subsection]
    ELSE IF st.current_section = "ingredients"
    THEN IF on.headerless_instruction
         THEN add_step([st EXCEPT !.current_section = "steps"], on.step,
                       st.current_step_section)
         ELSE add_ingredient(st, on.ingredient, st.current_ingredient_section)
    ELSE st

\* A plausible slip: only a line without a role is taken as metadata.
IsMetadataLine_Unlabelled(label, metadata) == metadata # NoMetadata /\ label = "junk"

\* The test of the metadata branch, which comes before any look at the
\* label.
IsMetadataLine(label, metadata) == metadata # NoMetadata

\* The body of the loop over the rows, for one row.
assemble_row_Row(st, on, text, label, metadata) ==
    IF text = "" \/ label \notin LABELS THEN st
    ELSE IF IsMetadataLine(label, metadata)
    THEN [st EXCEPT
             !.extracted_yields =
                 IF metadata.yields # <<>> /\ metadata.yields # <<"">>
                 THEN metadata.yields ELSE @,
             !.total_minutes =
                 IF metadata.total_minutes # NoMinutes THEN metadata.total_minutes ELSE @,
             !.prep_minutes =
                 IF metadata.prep_minutes # NoMinutes THEN metadata.prep_minutes ELSE @,
             !.cook_minutes =
                 IF metadata.cook_minutes # NoMinutes THEN metadata.cook_minutes ELSE @]
    ELSE IF on.artifact THEN st
    ELSE IF on.tips # <<>>
    THEN add_note([st EXCEPT !.current_section = "notes"], on.tips[1])
    ELSE IF /\ st.current_section = "notes"
            /\ label \in {"ingredient", "step", "note"}
            /\ on.note_fragment
    THEN add_note(st, on.note_line)
    ELSE IF label = "title" /\ st.title = ""
    THEN IF on.recipe_title THEN [st EXCEPT !.title = text]
         ELSE [st EXCEPT !.notes = Append(@, text)]
    ELSE IF label = "header" THEN assemble_header(st, on)
    ELSE IF label = "ingredient"
    THEN IF st.current_section = "notes" /\ on.note_fragment
         THEN add_note(st, on.note_line)
         ELSE IF st.current_section = "notes" /\ on.step_fragment
         THEN add_step([st EXCEPT !.current_section = "steps"], on.step,
                       st.current_step_section)
         ELSE IF st.current_section = "ingredients" /\ on.headerless_instruction
         THEN add_step([st EXCEPT !.current_section = "steps"], on.step,
                       st.current_step_section)
         ELSE IF st.current_section = "steps" /\ ~on.ingredient_line
         THEN add_step(st, on.step, st.current_step_section)
         ELSE add_ingredient([st EXCEPT !.current_section = "ingredients"],
                             on.ingredient, st.current_ingredient_section)
    ELSE IF label = "step"
    THEN IF st.current_section = "notes" /\ on.note_fragment
         THEN add_note(st, on.note_line)
         ELSE add_steps([st EXCEPT !.current_section = "steps"], on.numbered_steps,
                        st.current_step_section)
    ELSE IF label = "note"
    THEN IF on.step_fragment
         THEN add_step([st EXCEPT !.current_section = "steps"], on.step,
                       st.current_step_section)
         ELSE add_note([st EXCEPT !.current_section = "notes"], on.note_line)
    ELSE IF st.title = "" /\ label # "junk" /\ on.recipe_title
    THEN [st EXCEPT !.title = text]
    ELSE st

assemble_row_OnText(st, row, on) ==
    assemble_row_Row(st, on, on.text, Lower(Strip(row.label)), on.metadata)

assemble_row(st, row) ==
    assemble_row_OnText(st, row, st.on_line[row.text])

\* The list that the body of the loop appended to, or the title it set.
AppendedTo(before, after) ==
    IF Len(after.ingredients) > Len(before.ingredients) THEN "ingredients"
    ELSE IF Len(after.steps) > Len(before.steps) THEN "steps"
    ELSE IF Len(after.notes) > Len(before.notes) THEN "notes"
    ELSE IF after.title # before.title THEN "title"
    ELSE "none"

section_key(name) == IF name = NoSection \/ name[1] = "" THEN "Main" ELSE name[1]

\* The members of a set of numbers, in ascending order.
Ascending(set) ==
    [i \in 1..Cardinality(set) |->
        CHOOSE k \in set : Cardinality({j \in set : j < k}) = i - 1]

\* ingredient_sections_out / step_sections_out: the texts grouped by
\* section, the groups in the order of their first item.
SectionsOut(sections, texts) ==
    LET keys == [k \in 1..Len(sections) |-> section_key(sections[k])]
        firsts == Ascending({k \in 1..Len(keys) : \A j \in 1..(k - 1) : keys[j] # keys[k]})
        members(key) == Ascending({k \in 1..Len(keys) : keys[k] = key})
    IN  [g \in 1..Len(firsts) |->
            [name |-> IF keys[firsts[g]] = "Main" THEN NoSection ELSE <<keys[firsts[g]]>>,
             items |-> [i \in 1..Len(members(keys[firsts[g]])) |->
                           Strip(texts[members(keys[firsts[g]])[i]])]]]

\* "\n".join(notes).strip(), for notes that hold no line break.
RECURSIVE JoinLines(_)
JoinLines(notes) ==
    IF notes = <<>> THEN ""
    ELSE IF Len(notes) = 1 THEN notes[1]
    ELSE notes[1] \o "\n" \o JoinLines(Tail(notes))

\* A sequence without its element idx.
WithoutIndex(seq, idx) == SubSeq(seq, 1, idx - 1) \o SubSeq(seq, idx + 1, Len(seq))

\* The title as collected, with no default for an empty one.
title_or_default_Kept(title) == title

\* The last fallback of the title (the "if not title" that ends the fallbacks).
title_or_default(title) == IF title # "" THEN title ELSE "Untitled Recipe"

yields_or_default(extracted_yields) ==
    IF extracted_yields # <<>> /\ extracted_yields # <<"">> THEN extracted_yields[1]
    ELSE "4 servings"

\* The statements after the loop over the rows: the recipe returned.
assembled_recipe_totalMinutes(st) ==
    IF st.total_minutes # NoMinutes THEN st.total_minutes
    ELSE IF st.prep_minutes # NoMinutes /\ st.cook_minutes # NoMinutes
         THEN st.prep_minutes + st.cook_minutes
    ELSE IF st.cook_minutes # NoMinutes THEN st.cook_minutes
    ELSE st.prep_minutes

\* the recipe returned
assembled_recipe_Returned(st, title, ingredients, steps, notes, notes_text, ingredientSections, stepSections) ==
    [title |-> title_or_default(title),
     yields |-> yields_or_default(st.extracted_yields),
     totalMinutes |-> assembled_recipe_totalMinutes(st),
     ingredients |-> ingredients,
     steps |-> steps,
     notes |-> IF notes_text = "" THEN <<>> ELSE <<notes_text>>,
     ingredientSections |-> ingredientSections,
     stepSections |-> stepSections,
     stats |-> [ingredient_count |-> Len(ingredients),
                ingredient_parsed_quantity_count |-> st.parsed_ingredient_count,
                step_count |-> Len(steps),
                note_count |-> Len(notes),
                ingredient_section_count |-> Len(ingredientSections),
                step_section_count |-> Len(stepSections)]]

\* the sections of the merged lists, and the notes as one text
assembled_recipe_Sectioned(st, title, ingredients, steps, notes) ==
    assembled_recipe_Returned(st, title, ingredients, steps, notes, Strip(JoinLines(notes)),
             SectionsOut([k \in 1..Len(ingredients) |-> ingredients[k].section],
                         [k \in 1..Len(ingredients) |-> ingredients[k].name]),
             SectionsOut([k \in 1..Len(steps) |-> steps[k].section],
                         [k \in 1..Len(steps) |-> steps[k].text]))

\* the wrapped lines merged, the notes without the title
assembled_recipe_Merged(st, on_text, title, kept_notes, steps) ==
    assembled_recipe_Sectioned(st, title,
              infer_sauce_section_split(
                  merge_wrapped_ingredients(on_text, st.ingredients), steps),
              steps,
              SelectSeq(kept_notes,
                        LAMBDA note : LowerText(on_text, note) # LowerText(on_text, title)))

assembled_recipe_Titled(st, on_text, title, kept_notes) ==
    assembled_recipe_Merged(st, on_text, title, kept_notes, merge_wrapped_steps(on_text, st.steps))

assembled_recipe_shaped(on_text, title) == title # "" /\ IsRecipeTitle(on_text, title)

\* the first title-shaped note, which leaves the notes
assembled_recipe_FromNotes(st, on_text, row_title, shaped_notes, from_notes) ==
    assembled_recipe_Titled(st, on_text,
           title_or_default(
               IF from_notes
               THEN CleanText(on_text, st.notes[Ascending(shaped_notes)[1]])
               ELSE row_title),
           IF from_notes THEN WithoutIndex(st.notes, Ascending(shaped_notes)[1])
           ELSE st.notes)

assembled_recipe_ShapedNotes(st, on_text, row_title, shaped_notes) ==
    assembled_recipe_FromNotes(st, on_text, row_title, shaped_notes,
              ~assembled_recipe_shaped(on_text, row_title) /\ shaped_notes # {})

assembled_recipe_RowTitle(st, on_text, row_title) ==
    assembled_recipe_ShapedNotes(st, on_text, row_title,
                {k \in 1..Len(st.notes) : IsRecipeTitle(on_text, st.notes[k])})

\* A plausible slip: the fallback over the rows is left out.
assembled_recipe_ShapedRows_Skipped(st, on_line, on_text, shaped_rows) ==
    assembled_recipe_RowTitle(st, on_text, st.title)

\* the first title-shaped row
assembled_recipe_ShapedRows(st, on_line, on_text, shaped_rows) ==
    assembled_recipe_RowTitle(st, on_text,
             IF ~assembled_recipe_shaped(on_text, st.title) /\ shaped_rows # {}
             THEN on_line[st.rows[Ascending(shaped_rows)[1]].text].text
             ELSE st.title)

assembled_recipe_On(st, on_line, on_text) ==
    assembled_recipe_ShapedRows(st, on_line, on_text,
               {k \in 1..Len(st.rows) :
                   /\ Lower(Strip(st.rows[k].label)) \in LABELS
                   /\ on_line[st.rows[k].text].text # ""
                   /\ on_line[st.rows[k].text].recipe_title})

assembled_recipe(st) ==
    assembled_recipe_On(st, st.on_line, st.on_text)

\* The rows whose label is not the one of the line.
WrongRows(rows) == {k \in 1..Len(rows) : rows[k].label # RightLabel(rows[k].text)}

\* The rows are the lines of a document, each with the label of the
\* classifier: the right one but for one row at most, or junk on every row.
LabelledRows(rows) ==
    \/ Cardinality(WrongRows(rows)) <= 1
    \/ \A k \in 1..Len(rows) : rows[k].label = "junk"

\* The loop takes the next row of the list.
AssembleRow ==
    /\ assembler.pc = "rows"
    /\ Len(assembler.rows) < MaxRecipeLines
    /\ \E k \in DOMAIN RecipeLines, label \in LABELS :
          LET Looped(rows, after) ==
                  /\ OnOnePage(rows)
                  /\ LabelledRows(rows)
                  /\ assembler' = [after EXCEPT
                         !.rows = rows,
                         !.appended = Append(@, AppendedTo(assembler, after))]
              Row(row) == Looped(Append(assembler.rows, row), assemble_row(assembler, row))
          IN  /\ assembler.rows # <<>>
                    => k > LineIndex(assembler.rows[Len(assembler.rows)].text)
              /\ Row([text |-> RecipeLines[k], label |-> label])
    /\ UNCHANGED <<lifecycleVars, predictVars, tracker, validation, harness, dataset,
                 appending>>

\* The list of rows is at its end: the title is settled, the wrapped lines
\* are merged and the recipe is returned.
AssembleReturn ==
    /\ assembler.pc = "rows"
    /\ assembler' = [assembler EXCEPT !.pc = "done", !.recipe = assembled_recipe(assembler)]
    /\ UNCHANGED <<lifecycleVars, predictVars, tracker, validation, harness, dataset,
                 appending>>

\* ------------------------------- saved cases and train_line_classifier

HOLDOUT_DOC_PREFIX == "holdout_"

FAILURE_SOURCE_TYPES == {"ocr_failure", "parse_failure"}

HOLDOUT_SAVE_KINDS == {"holdout", "ocr_failure", "parse_failure"}

\* The ids, source types and save kinds of the save requests; <<>> is a
\* request without save_kind.
CaseIds == {"a", " b", "holdout_a"}

SourceTypes == {"manual_edge", "OCR_failure"}

RawSaveKinds == {<<>>, <<"train">>, <<" Holdout">>, <<"parse_failure">>, <<"other">>}

\* The ids of the documents of the dataset, in the order of sorted().
DocOrder == <<"a", "b", "holdout_a", "holdout_b">>

normalized_save_kind_value(value) ==
    IF value \in {"train", "holdout", "ocr_failure", "parse_failure"} THEN value
    ELSE "train"

\* str(raw_value or "train").strip().lower(), then the known kinds only.
normalized_save_kind(raw_value) ==
    normalized_save_kind_value(
        Lower(Strip(IF raw_value = <<>> \/ raw_value = <<"">> THEN "train" ELSE raw_value[1])))

\* A plausible slip: the prefix is put before every id that needs it,
\* prefixed or not.
effective_case_id_Prefixed(normalized_id, requires_holdout) ==
    IF requires_holdout THEN HOLDOUT_DOC_PREFIX \o normalized_id ELSE normalized_id

effective_case_id_Id(normalized_id, requires_holdout) ==
    IF requires_holdout /\ ~StartsWith(normalized_id, HOLDOUT_DOC_PREFIX)
    THEN HOLDOUT_DOC_PREFIX \o normalized_id
    ELSE normalized_id

effective_case_id(case_id, source_type, save_kind) ==
    effective_case_id_Id(Strip(case_id),
        \/ Lower(Strip(source_type)) \in FAILURE_SOURCE_TYPES
        \/ normalized_save_kind(<<save_kind>>) \in HOLDOUT_SAVE_KINDS)

\* _matches_prefix
matches_prefix(doc_id, prefixes) ==
    \E k \in 1..Len(prefixes) :
        Strip(prefixes[k]) # "" /\ StartsWith(doc_id, Strip(prefixes[k]))

\* A plausible slip: the excluded prefixes are not applied.
load_line_rows_All(docs, include_doc_prefixes, exclude_doc_prefixes) == docs

\* load_line_rows: the documents whose rows are loaded. Every lines file
\* of the dataset holds one row or more.
load_line_rows(docs, include_doc_prefixes, exclude_doc_prefixes) ==
    {doc_id \in docs :
        /\ include_doc_prefixes # <<>> => matches_prefix(doc_id, include_doc_prefixes)
        /\ exclude_doc_prefixes # <<>> => ~matches_prefix(doc_id, exclude_doc_prefixes)}

\* sorted(docs)[0]
FirstSorted(docs) ==
    DocOrder[CHOOSE k \in DOMAIN DocOrder :
                 /\ DocOrder[k] \in docs
                 /\ \A j \in 1..(k - 1) : DocOrder[j] \notin docs]

split_docs_for_holdout_Trained(train_docs, holdout_docs) ==
    IF train_docs = {} /\ holdout_docs # {}
    THEN [train_docs |-> {FirstSorted(holdout_docs)},
          holdout_docs |-> holdout_docs \ {FirstSorted(holdout_docs)}]
    ELSE [train_docs |-> train_docs, holdout_docs |-> holdout_docs]

split_docs_for_holdout_Held(train_docs, holdout_docs) ==
    IF holdout_docs = {} /\ train_docs # {}
    THEN split_docs_for_holdout_Trained(train_docs \ {FirstSorted(train_docs)},
                                        {FirstSorted(train_docs)})
    ELSE split_docs_for_holdout_Trained(train_docs, holdout_docs)

\* split_docs_for_holdout, low being the documents whose SHA-256 bucket is
\* below holdout_ratio.
split_docs_for_holdout(doc_ids, low) ==
    split_docs_for_holdout_Held(doc_ids \ low, doc_ids \cap low)

NoSplit == [train_docs |-> {}, holdout_docs |-> {}]

\* docs: the lines files of the dataset; saved: the save requests served,
\* each with the id it was saved under; rows: the documents of the rows that
\* main loaded; split: what split_docs_for_holdout returned; fit_docs: the
\* documents of the rows given to fit; rc: the exit status of main.
DatasetIdle ==
    [pc |-> "idle", docs |-> {}, saved |-> <<>>, rows |-> {}, split |-> NoSplit,
     fit_docs |-> {}, rc |-> NotRun]

\* _append_dataset: the case is exported to the dataset under its effective
\* id.
AppendDataset ==
    /\ dataset.pc = "idle"
    /\ Len(dataset.saved) < MaxCases
    /\ \E case_id \in CaseIds, source_type \in SourceTypes, raw_kind \in RawSaveKinds :
          dataset' = [dataset EXCEPT
              !.docs = @ \cup {effective_case_id(Strip(case_id), Strip(source_type),
                                                 normalized_save_kind(raw_kind))},
              !.saved = Append(@,
                  [id |-> Strip(case_id), source_type |-> Strip(source_type),
                   save_kind |-> normalized_save_kind(raw_kind),
                   case_id |-> effective_case_id(Strip(case_id), Strip(source_type),
                                                 normalized_save_kind(raw_kind))])]
    /\ UNCHANGED <<lifecycleVars, predictVars, tracker, assembler, validation, harness,
                 appending>>

\* main of train_line_classifier.py, as _retrain_model launches it: the
\* default of --exclude-doc-prefix and the prefix passed on the command
\* line are both in the list.
TrainLoadRows ==
    /\ dataset.pc = "idle"
    /\ dataset' = [dataset EXCEPT
          !.pc = "loaded",
          !.rows = load_line_rows(dataset.docs, <<>>,
                                  <<HOLDOUT_DOC_PREFIX, HOLDOUT_DOC_PREFIX>>)]
    /\ UNCHANGED <<lifecycleVars, predictVars, tracker, assembler, validation, harness,
                 appending>>

TrainSplit ==
    /\ dataset.pc = "loaded"
    /\ \E low \in SUBSET dataset.rows :
          dataset' = [dataset EXCEPT
              !.pc = "split",
              !.split = split_docs_for_holdout(dataset.rows, low)]
    /\ UNCHANGED <<lifecycleVars, predictVars, tracker, assembler, validation, harness,
                 appending>>

\* A split without training rows or without holdout rows ends the script
\* with SystemExit; otherwise the model is fitted on the train rows.
TrainFit ==
    /\ dataset.pc = "split"
    /\ dataset' =
          IF dataset.split.train_docs = {} \/ dataset.split.holdout_docs = {}
          THEN [dataset EXCEPT !.pc = "exited", !.rc = 1]
          ELSE [dataset EXCEPT !.pc = "exited", !.rc = 0,
                               !.fit_docs = dataset.rows \cap dataset.split.train_docs]
    /\ UNCHANGED <<lifecycleVars, predictVars, tracker, assembler, validation, harness,
                 appending>>

\* --------------------------------------------------- validate_dataset

DocIds == {"a", "b"}

NoDocFile == [exists |-> FALSE, normalized_lines |-> <<>>, target_complete |-> TRUE]
NoLineFile == [exists |-> FALSE, rows |-> <<>>]

\* documents/a.doc.json: absent, or a complete document of 0..MaxRows lines.
DocFilesA ==
    {NoDocFile} \cup
    {[exists |-> TRUE, normalized_lines |-> [i \in 1..n |-> "x"],
      target_complete |-> TRUE] : n \in 0..MaxRows}

\* lines/a.lines.jsonl: absent, or up to MaxRows rows with good and bad
\* indices, texts and labels.
LineRowsA == [line_index : {0, 1}, text : {"x", "y"}, label : {"title", "Step"}]

LineFilesA ==
    {NoLineFile} \cup
    UNION {{[exists |-> TRUE, rows |-> rows] : rows \in [1..n -> LineRowsA]} :
           n \in 0..MaxRows}

\* documents/b.doc.json: absent, or a one-line document, with or without all
\* its target_recipe fields.
DocFilesB ==
    {NoDocFile} \cup
    {[exists |-> TRUE, normalized_lines |-> <<"x">>, target_complete |-> c] :
        c \in BOOLEAN}

\* lines/b.lines.jsonl: absent, empty, or one good row.
LineFilesB ==
    {NoLineFile,
     [exists |-> TRUE, rows |-> <<>>],
     [exists |-> TRUE, rows |-> <<[line_index |-> 0, text |-> "x", label |-> "step"]>>]}

\* load_documents: the documents by id.
LoadDocuments(docFiles) == {d \in DocIds : docFiles[d].exists}

\* load_line_rows followed by the grouping loop of validate_dataset:
\* rows_by_doc has a key for every line file that holds at least one row.
RowsByDocKeys(lineFiles) ==
    {d \in DocIds : lineFiles[d].exists /\ lineFiles[d].rows # <<>>}

DocRows(lineFiles, d) == lineFiles[d].rows

\* The errors of validate_dataset, as the set of what each message names.
ValidationErrors(docFiles, lineFiles) ==
    LET documents == LoadDocuments(docFiles)
        keys == RowsByDocKeys(lineFiles)
        rows(d) == DocRows(lineFiles, d)
        lines(d) == docFiles[d].normalized_lines
    IN  {[kind |-> "invalid_label", doc |-> d,
          line_index |-> rows(d)[i].line_index] :
            <<d, i>> \in {<<dd, ii>> \in keys \X (1..MaxRows + 1) :
                            /\ ii <= Len(rows(dd))
                            /\ rows(dd)[ii].label \notin LABELS}}
        \cup (IF documents = {}
              THEN {[kind |-> "no_documents", doc |-> "", line_index |-> NotRun]}
              ELSE {})
        \cup {[kind |-> "missing_field", doc |-> d, line_index |-> NotRun] :
                d \in {dd \in documents : ~docFiles[dd].target_complete}}
        \cup {[kind |-> "no_line_file", doc |-> d, line_index |-> NotRun] :
                d \in documents \ keys}
        \cup {[kind |-> "line_count", doc |-> d, line_index |-> NotRun] :
                d \in {dd \in documents \cap keys : Len(lines(dd)) # Len(rows(dd))}}
        \cup {[kind |-> "not_contiguous", doc |-> d, line_index |-> NotRun] :
                d \in {dd \in documents \cap keys :
                         {rows(dd)[i].line_index : i \in 1..Len(rows(dd))}
                             # 0..(Len(rows(dd)) - 1)}}
        \cup {[kind |-> "text_mismatch", doc |-> d,
               line_index |-> rows(d)[i].line_index] :
                <<d, i>> \in {<<dd, ii>> \in (documents \cap keys) \X (1..MaxRows + 1) :
                                /\ ii <= Len(rows(dd))
                                /\ rows(dd)[ii].line_index < Len(lines(dd))
                                /\ lines(dd)[rows(dd)[ii].line_index + 1]
                                       # rows(dd)[ii].text}}
        \cup {[kind |-> "unknown_doc", doc |-> d, line_index |-> NotRun] :
                d \in keys \ documents}

ValidationIdle ==
    [pc |-> "idle", docFiles |-> [d \in DocIds |-> NoDocFile],
     lineFiles |-> [d \in DocIds |-> NoLineFile], errors |-> {}, is_valid |-> FALSE]

\* validate_dataset(data_dir): the two directories are read and checked.
ValidateDataset ==
    /\ validation.pc = "called"
    /\ LET errors == ValidationErrors(validation.docFiles, validation.lineFiles)
       IN  validation' = [validation EXCEPT
               !.pc = "returned",
               !.errors = errors,
               !.is_valid = (errors = {})]
    /\ UNCHANGED <<lifecycleVars, predictVars, tracker, assembler, harness, dataset,
                 appending>>

\* ------------------------------------------ regression_metrics.main

\* What _score_case returns for one fixture: its note-leakage rate and its
\* ingredient/step swap rate, in hundredths.
FixtureScores ==
    [leakage_rate : {0, NoteLeakageMax, 2 * NoteLeakageMax},
     swap_rate : {0, SwapMax, 2 * SwapMax}]

RECURSIVE SumSeq(_)
SumSeq(seq) == IF seq = <<>> THEN 0 ELSE Head(seq) + SumSeq(Tail(seq))

\* sum(rates) / len(rates) <= max, without the division.
MeanWithin(rates, max) == SumSeq(rates) <= max * Len(rates)

\* A plausible slip: one rate within its threshold is enough.
HarnessExitCode_EitherWithin(leakage_rates, swap_rates) ==
    IF MeanWithin(leakage_rates, NoteLeakageMax) \/ MeanWithin(swap_rates, SwapMax)
    THEN 0 ELSE 1

\* main's return value: the guardrail on the two mean rates.
HarnessExitCode(leakage_rates, swap_rates) ==
    IF MeanWithin(leakage_rates, NoteLeakageMax) /\ MeanWithin(swap_rates, SwapMax)
    THEN 0 ELSE 1

HarnessIdle ==
    [pc |-> "idle", fixtures |-> <<>>, leakage_rates |-> <<>>,
     swap_rates |-> <<>>, report |-> FALSE, rc |-> NotRun]

HarnessLoaded(fixtures) == [HarnessIdle EXCEPT !.pc = "loaded", !.fixtures = fixtures]

\* No *.json under the regression directory: SystemExit with a message,
\* which the interpreter turns into exit status 1; no report is written.
HarnessNoFixtures ==
    /\ harness.pc = "loaded"
    /\ harness.fixtures = <<>>
    /\ harness' = [harness EXCEPT !.pc = "exited", !.rc = 1]
    /\ UNCHANGED <<lifecycleVars, predictVars, tracker, assembler, validation, dataset,
                 appending>>

\* One iteration of the loop over the fixtures.
HarnessScoreFixture ==
    /\ harness.pc = "loaded"
    /\ Len(harness.leakage_rates) < Len(harness.fixtures)
    /\ LET case == harness.fixtures[Len(harness.leakage_rates) + 1]
       IN  harness' = [harness EXCEPT
               !.leakage_rates = Append(@, case.leakage_rate),
               !.swap_rates = Append(@, case.swap_rate)]
    /\ UNCHANGED <<lifecycleVars, predictVars, tracker, assembler, validation, dataset,
                 appending>>

\* After the loop: the means are taken, the report is written and main
\* returns.
HarnessExit ==
    /\ harness.pc = "loaded"
    /\ harness.fixtures # <<>>
    /\ Len(harness.leakage_rates) = Len(harness.fixtures)
    /\ harness' = [harness EXCEPT
           !.pc = "exited",
           !.report = TRUE,
           !.rc = HarnessExitCode(harness.leakage_rates, harness.swap_rates)]
    /\ UNCHANGED <<lifecycleVars, predictVars, tracker, assembler, validation, dataset,
                 appending>>

\* ------------------------------------------------------ specifications

\* No library function is being applied.
LibraryIdle ==
    /\ tracker = TrackerIdle
    /\ assembler = AssemblerIdle
    /\ validation = ValidationIdle
    /\ harness = HarnessIdle
    /\ dataset = DatasetIdle
    /\ appending = AppendingIdle

IdleHandlers ==
    /\ pc = [h \in Handlers |-> "idle"]
    /\ hung = [h \in Handlers |-> FALSE]
    /\ kind = [h \in Handlers |-> "none"]
    /\ req = [h \in Handlers |-> [fixed_holdout_available |-> FALSE]]
    /\ backupModel = [h \in Handlers |-> NoFile]
    /\ backupSplit = [h \in Handlers |-> NoFile]
    /\ metrics = [h \in Handlers |-> EmptyMetrics]
    /\ resp = [h \in Handlers |-> NoResp]
    /\ runId = [h \in Handlers |-> 0]
    /\ stages = [h \in Handlers |-> <<>>]
    /\ appends = [h \in Handlers |-> 0]
    /\ ppc = "idle"
    /\ plines = <<>>
    /\ pused = <<>>

\* The server has started: Predictor() has loaded the artifact (it raises
\* if there is none); split.json exists if the artifact came from a
\* training run on this machine.
Started ==
    /\ artifactModel = 0
    /\ artifactSplit \in {0, NoFile}
    /\ bundle = [payload |-> 0, json |-> 0]
    /\ live = 0
    /\ rejected = {}
    /\ runsLeft = MaxRuns
    /\ pre = [h \in Handlers |->
                [model |-> 0, split |-> artifactSplit, bundle |-> bundle,
                 live |-> 0]]
    /\ IdleHandlers

\* No run has been recorded yet.
Init ==
    /\ Started
    /\ historyFile = [exists |-> FALSE, runs |-> <<>>]
    /\ allRuns = <<>>
    /\ runCount = 0
    /\ LibraryIdle

\* The history file after n earlier runs, one at a time, that alternately
\* failed and succeeded.
EarlierRuns(n) ==
    [i \in 1..n |-> RunEntry(i, "retrain", i % 2 = 0)]

\* The server has been in use: split.json is there and the history file
\* holds one entry less than METRICS_HISTORY_MAX, so the next run fills it
\* and the one after makes _save_metrics_history drop the oldest entry.
HistInit ==
    /\ artifactSplit = 0
    /\ Started
    /\ historyFile = [exists |-> TRUE,
                      runs |-> EarlierRuns(METRICS_HISTORY_MAX - 1)]
    /\ allRuns = EarlierRuns(METRICS_HISTORY_MAX - 1)
    /\ runCount = METRICS_HISTORY_MAX - 1
    /\ LibraryIdle

HandlerStep(h) ==
    \/ RetrainStart(h)
    \/ RetrainStartRaises(h)
    \/ ValidateExit(h)
    \/ TrainExit(h)
    \/ EvaluateExit(h)
    \/ FixedHoldoutExit(h)
    \/ RetrainGatePass(h)
    \/ RetrainGateFail(h)
    \/ ExportExit(h)
    \/ MetricsStart(h)
    \/ MetricsStartRaises(h)
    \/ MetricsRegressionExit(h)

\* Lifecycle requests arrive one at a time; /predict requests are served
\* on their own thread at any moment.
Next ==
    \/ \E h \in SeqHandlers : HandlerStep(h)
    \/ \E h \in SeqHandlers : StageHangs(h)
    \/ PredictStart
    \/ PredictLine
    \/ PredictFinish

Spec == Init /\ [][Next]_vars

\* Lifecycle requests alone, one at a time, on a server whose history file
\* is about to reach its bound.
HistNext == \E h \in SeqHandlers : HandlerStep(h)

SpecHistory == HistInit /\ [][HistNext]_vars

\* ThreadingHTTPServer gives every request a thread of its own and the
\* handlers take no lock: two /retrain_model requests in service at once,
\* their steps interleaved in any order.
RetrainStep(h) ==
    \/ RetrainStart(h)
    \/ ValidateExit(h)
    \/ TrainExit(h)
    \/ EvaluateExit(h)
    \/ FixedHoldoutExit(h)
    \/ RetrainGatePass(h)
    \/ RetrainGateFail(h)
    \/ ExportExit(h)

\* The server has been in use (split.json is there) and has no run on
\* record.
ConcurrentInit == Init /\ artifactSplit = 0

\* The threads are interchangeable: the one that serves the first request
\* to arrive is called h1.
ConcurrentNext ==
    \E h \in Handlers : (runCount > 0 \/ h = "h1") /\ RetrainStep(h)

SpecConcurrent == ConcurrentInit /\ [][ConcurrentNext]_vars

\* Runs on the two request threads reach _append_metrics_history in any
\* order, on a server with no run or one run on record.
AppendInit ==
    /\ artifactSplit = 0
    /\ Started
    /\ LibraryIdle
    /\ \E n \in {0, 1} :
          /\ historyFile = [exists |-> n > 0, runs |-> EarlierRuns(n)]
          /\ allRuns = EarlierRuns(n)
          /\ runCount = n

AppendNext ==
    \E h \in Handlers :
        \/ AppendCall(h)
        \/ AppendLoad(h)
        \/ AppendOpen(h)
        \/ AppendWrite(h)

SpecAppend == AppendInit /\ [][AppendNext]_vars

\* The server at rest: no lifecycle request and no /predict in progress.
ServerAtRest ==
    /\ artifactSplit = 0
    /\ Started
    /\ historyFile = [exists |-> FALSE, runs |-> <<>>]
    /\ allRuns = <<>>
    /\ runCount = 0

\* regression_metrics.py run on a directory of at most MaxFixtures fixtures.
HarnessInit ==
    /\ ServerAtRest
    /\ dataset = DatasetIdle
    /\ appending = AppendingIdle
    /\ tracker = TrackerIdle
    /\ assembler = AssemblerIdle
    /\ validation = ValidationIdle
    /\ \E n \in 0..MaxFixtures : \E fixtures \in [1..n -> FixtureScores] :
            harness = HarnessLoaded(fixtures)

\* A fitted model and one of the two passes over labelled lines about to
\* start.
TrackerInit ==
    /\ ServerAtRest
    /\ assembler = AssemblerIdle
    /\ validation = ValidationIdle
    /\ harness = HarnessIdle
    /\ dataset = DatasetIdle
    /\ appending = AppendingIdle
    /\ \E fn \in {"run_predictions", "predict"} :
            tracker = [TrackerIdle EXCEPT !.pc = "running", !.fn = fn]

TrackerNext == RunPredictionsRow \/ PredictRow

SpecTracker == TrackerInit /\ [][TrackerNext]_vars

\* validate_dataset called on a dataset directory holding any of the files
\* of two document ids.
ValidationInit ==
    /\ ServerAtRest
    /\ dataset = DatasetIdle
    /\ appending = AppendingIdle
    /\ tracker = TrackerIdle
    /\ assembler = AssemblerIdle
    /\ harness = HarnessIdle
    /\ \E da \in DocFilesA, la \in LineFilesA, db \in DocFilesB, lb \in LineFilesB :
            validation = [ValidationIdle EXCEPT
                !.pc = "called",
                !.docFiles = [d \in DocIds |-> IF d = "a" THEN da ELSE db],
                !.lineFiles = [d \in DocIds |-> IF d = "a" THEN la ELSE lb]]

ValidationNext == ValidateDataset

SpecValidation == ValidationInit /\ [][ValidationNext]_vars

HarnessNext == HarnessNoFixtures \/ HarnessScoreFixture \/ HarnessExit

SpecHarness == HarnessInit /\ [][HarnessNext]_vars

\* Cases are saved to a dataset and train_line_classifier.py is run on it.
TrainerInit ==
    /\ ServerAtRest
    /\ tracker = TrackerIdle
    /\ assembler = AssemblerIdle
    /\ validation = ValidationIdle
    /\ harness = HarnessIdle
    /\ \E docs \in SUBSET {"a", "b", "holdout_b"} :
          dataset = [DatasetIdle EXCEPT !.docs = docs]
    /\ appending = AppendingIdle

TrainerNext == AppendDataset \/ TrainLoadRows \/ TrainSplit \/ TrainFit

SpecTrainer == TrainerInit /\ [][TrainerNext]_vars

\* _assemble_app_recipe called on a list of rows.
AssemblerInit ==
    /\ ServerAtRest
    /\ tracker = TrackerIdle
    /\ validation = ValidationIdle
    /\ harness = HarnessIdle
    /\ dataset = DatasetIdle
    /\ appending = AppendingIdle
    /\ assembler = AssemblerStart

AssemblerNext == AssembleRow \/ AssembleReturn

SpecAssembler == AssemblerInit /\ [][AssemblerNext]_vars

\* =============================================================== claims

\* The run on handler h has been answered and no later run has started.
Finished(h) == pc[h] = "idle" /\ resp[h].sent

\* The run on handler h launched `stage`.
Launched(h, stage) == \E i \in DOMAIN stages[h] : stages[h][i] = stage

\* The entry the run on handler h appended last.
LastEntry == allRuns[Len(allRuns)]

GateFailed(h) == Finished(h) /\ kind[h] = "retrain" /\ resp[h].gate = "fail"

ExportFailed(h) ==
    Finished(h) /\ kind[h] = "retrain" /\ resp[h].gate = "pass" /\ resp[h].export_rc # 0

C2_FailedRunLeavesNothingPromoted ==
    \A h \in Handlers :
        (Finished(h) /\ kind[h] = "retrain" /\ ~resp[h].ok) =>
            /\ artifactModel = pre[h].model
            /\ artifactSplit = pre[h].split
            /\ bundle = pre[h].bundle

\* C3 as stated: every line of one predict call is classified by one and
\* the same model object.
C3_PredictUsesOneModel ==
    \A i, j \in DOMAIN pused : pused[i] = pused[j]

C5_TrainFailureLeavesModelUntouched ==
    \A h \in Handlers :
        (Finished(h) /\ kind[h] = "retrain" /\ resp[h].train_rc > 0) =>
            /\ stages[h] = <<"validate", "train">>
            /\ ~resp[h].rolled_back /\ ~resp[h].reloaded
            /\ appends[h] = 1
            /\ LastEntry = RunEntry(runId[h], "retrain", FALSE)
            /\ artifactModel = pre[h].model

\* C6: after a retrain run whose validate stage exited nonzero, validate is
\* the only stage that ran, nothing was restored or reloaded, the model and
\* split artifacts, the bundle and the live model are those from before the
\* run, and exactly one history entry, with success=false, was appended.
C6_ValidateFailureHalts ==
    \A h \in Handlers :
        (Finished(h) /\ kind[h] = "retrain" /\ resp[h].validate_rc > 0) =>
            /\ stages[h] = <<"validate">>
            /\ resp[h].train_rc = NotRun /\ resp[h].export_rc = NotRun
            /\ ~resp[h].rolled_back /\ ~resp[h].reloaded
            /\ ~resp[h].ok
            /\ artifactModel = pre[h].model
            /\ artifactSplit = pre[h].split
            /\ bundle = pre[h].bundle
            /\ live = pre[h].live
            /\ appends[h] = 1
            /\ LastEntry = RunEntry(runId[h], "retrain", FALSE)
            /\ LoadMetricsHistory(historyFile)[Len(LoadMetricsHistory(historyFile))]
                   = LastEntry

\* C6 witness: a retrain run answered after its validate stage exited 1.
C6_Witness ==
    \E h \in Handlers :
        /\ Finished(h) /\ kind[h] = "retrain"
        /\ resp[h].validate_rc = 1
        /\ appends[h] = 1
        /\ runCount > 0

\* C7: while export runs, both reports of the run exist and all five
\* thresholds hold on their values; export is launched by retrain runs only;
\* and the model a run trained is live at the end of that run only if the
\* gate passed and export exited 0.
C7_PromotionNeedsAllThresholds ==
    \A h \in Handlers :
        /\ pc[h] = "export" =>
            LET e == metrics[h].eval
                r == metrics[h].reg
            IN  /\ e.present /\ r.present
                /\ e.macro_f1_present_labels >= MacroF1Min
                /\ e.note_support > 0 => e.note_recall >= NoteRecallMin
                /\ e.ingredient_step_confusion_rate <= ConfusionMax
                /\ r.note_leakage_rate <= NoteLeakageMax
                /\ r.ingredient_step_swap_rate <= SwapMax
        /\ Launched(h, "export") =>
            /\ kind[h] = "retrain"
            /\ pc[h] = "export" \/ (Finished(h) /\ resp[h].gate = "pass")
        /\ (Finished(h) /\ kind[h] = "retrain" /\ live = runId[h]) =>
            /\ Launched(h, "export")
            /\ resp[h].gate = "pass" /\ resp[h].export_rc = 0

\* C7 witness: export is running for a model whose evaluation report has
\* no note support, so the note-recall threshold did not apply, and both
\* stage scripts exited 0.
C7_Witness ==
    \E h \in Handlers :
        /\ pc[h] = "export"
        /\ metrics[h].eval.note_support = 0
        /\ metrics[h].evaluate_rc = 0 /\ metrics[h].regression_rc = 0

\* C8 as stated: every answered run, of either kind, appended exactly one
\* history entry.
C8_EveryRunAppendsOneEntry ==
    \A h \in Handlers : Finished(h) => appends[h] = 1

\* The last n entries of a sequence, in order.
LastN(seq, n) ==
    LET k == IF Len(seq) < n THEN Len(seq) ELSE n
    IN  [i \in 1..k |-> seq[Len(seq) - k + i]]

\* C9: the history file holds at most METRICS_HISTORY_MAX entries; they are
\* the most recently appended entries, unchanged and in the order of the
\* runs.
C9_HistoryIsLastRuns ==
    LET runs == LoadMetricsHistory(historyFile)
    IN  /\ Len(runs) <= METRICS_HISTORY_MAX
        /\ runs = LastN(allRuns, METRICS_HISTORY_MAX)
        /\ \A i, j \in DOMAIN runs : i < j => runs[i].id < runs[j].id

\* C9 witness: more runs were recorded than the file holds, the file is
\* full and its newest entry is the last run's.
C9_Witness ==
    LET runs == LoadMetricsHistory(historyFile)
    IN  /\ Len(allRuns) > METRICS_HISTORY_MAX
        /\ Len(runs) = METRICS_HISTORY_MAX
        /\ runs[Len(runs)].id = runCount
        /\ runs[1].id = Len(allRuns) - METRICS_HISTORY_MAX + 1

\* C10 as stated: a handler whose stage subprocess never exits is not
\* blocked; it can still take a step (the stage's timeout expiring) that
\* leads to its response.
C10_HungStageDoesNotBlock ==
    \A h \in SeqHandlers : hung[h] => ENABLED HandlerStep(h)

\* C16: regression_metrics.py exits with status 0 or 1; with fixtures, it
\* exits 1 exactly when the mean note_leakage_rate exceeds 0.05 or the mean
\* ingredient_step_swap_rate exceeds 0.08, and it has then written its
\* report; without fixtures it exits 1.
C16_HarnessExitStatus ==
    harness.pc = "exited" =>
        LET n == Len(harness.fixtures)
            leak == SumSeq([i \in 1..n |-> harness.fixtures[i].leakage_rate])
            swap == SumSeq([i \in 1..n |-> harness.fixtures[i].swap_rate])
        IN  /\ harness.rc \in {0, 1}
            /\ n = 0 => harness.rc = 1 /\ ~harness.report
            /\ n > 0 => /\ harness.report
                        /\ harness.rc = 1 <=>
                             \/ leak > NoteLeakageMax * n
                             \/ swap > SwapMax * n

\* C16 witness: two fixtures whose mean leakage is exactly at its threshold
\* and whose mean swap rate is above its own: exit status 1.
C16_Witness ==
    /\ harness.pc = "exited"
    /\ Len(harness.fixtures) = 2
    /\ SumSeq(harness.leakage_rates) = NoteLeakageMax * 2
    /\ SumSeq(harness.swap_rates) > SwapMax * 2
    /\ harness.rc = 1

\* The order in which a run launches its stages.
StageRank(stage) ==
    CASE stage = "validate" -> 1
      [] stage = "train" -> 2
      [] stage = "evaluate" -> 3
      [] stage = "fixed_holdout" -> 4
      [] stage = "regression" -> 5
      [] stage = "export" -> 6

\* C17: in a retrain run the stages are launched in the order validate,
\* train, evaluate, fixed-holdout evaluate, regression, export, each at most
\* once and only while no other stage of the run is running; train only
\* after validate exited 0, evaluate only after train exited 0, regression
\* whenever evaluation was launched and has exited (whatever its status, which
\* is kept with its report), export only after the gate passed, and the
\* reload only in the step that ends the run.
C17_StagesRunInOrder ==
    \A h \in Handlers :
        kind[h] = "retrain" =>
            /\ \A i, j \in DOMAIN stages[h] :
                   i < j => StageRank(stages[h][i]) < StageRank(stages[h][j])
            /\ pc[h] # "idle" => /\ stages[h] # <<>>
                                 /\ pc[h] = stages[h][Len(stages[h])]
            /\ Launched(h, "train") => resp[h].validate_rc = 0
            /\ Launched(h, "evaluate") =>
                   /\ Launched(h, "train")
                   /\ resp[h].train_rc = 0
            /\ Launched(h, "fixed_holdout") => Launched(h, "evaluate")
            /\ Launched(h, "regression") => Launched(h, "evaluate")
            /\ (Launched(h, "evaluate") /\ pc[h] \notin {"evaluate", "fixed_holdout"})
                   => Launched(h, "regression")
            /\ pc[h] = "regression" =>
                   /\ metrics[h].evaluate_rc \in {0, 1}
                   /\ metrics[h].evaluate_rc = 0 => metrics[h].eval.present
            /\ Launched(h, "export") =>
                   /\ Launched(h, "regression")
                   /\ pc[h] = "export" => PipelineOk(metrics[h])
                   /\ pc[h] = "idle" => resp[h].gate = "pass"
            /\ (resp[h].reloaded \/ resp[h].reload_error) =>
                   /\ Finished(h)
                   /\ Launched(h, "regression")

\* C17 witness: regression is running although evaluate exited 1, after
\* validate, train and both evaluations ran in that order.
C17_Witness ==
    \E h \in Handlers :
        /\ kind[h] = "retrain"
        /\ pc[h] = "regression"
        /\ metrics[h].evaluate_rc = 1
        /\ stages[h] = <<"validate", "train", "evaluate", "fixed_holdout", "regression">>

\* Some message of the result names document d (and line index i).
NamesDoc(d) == \E e \in validation.errors : e.doc = d
NamesLine(d, i) == \E e \in validation.errors : e.doc = d /\ e.line_index = i

\* C14 as stated: validate_dataset returns is_valid=false, with an error
\* naming the document (and the line index for a label error), whenever a
\* row's label is outside the six labels, a document's normalized_lines
\* count differs from its number of rows, a document's line_index values
\* are not exactly 0..n-1, or a line file exists for an id that has no
\* document file; and is_valid is true exactly when there is no error.
C14_ValidationReportsEveryFault ==
    validation.pc = "returned" =>
        LET docs == validation.docFiles
            files == validation.lineFiles
            rows(d) == files[d].rows
        IN  /\ validation.is_valid <=> validation.errors = {}
            /\ \A d \in DocIds :
                /\ \A i \in 1..Len(rows(d)) :
                       (files[d].exists /\ rows(d)[i].label \notin LABELS) =>
                           /\ ~validation.is_valid
                           /\ NamesLine(d, rows(d)[i].line_index)
                /\ (docs[d].exists /\ Len(docs[d].normalized_lines) # Len(rows(d))) =>
                       ~validation.is_valid /\ NamesDoc(d)
                /\ (docs[d].exists /\
                    {rows(d)[i].line_index : i \in 1..Len(rows(d))}
                        # 0..(Len(rows(d)) - 1)) =>
                       ~validation.is_valid /\ NamesDoc(d)
                /\ (files[d].exists /\ ~docs[d].exists) =>
                       ~validation.is_valid /\ NamesDoc(d)

\* ---------------------------------------------------------------- C15

\* The rules of rule_based_label in the order of the source, each with the
\* label and confidence it returns.
RuleHits(text) ==
    <<[hit |-> IsBlank(text), label |-> "junk", confidence |-> Conf(99)],
      [hit |-> IsTagLike(text), label |-> "junk", confidence |-> Conf(99)],
      [hit |-> IsHeaderKeyword(text), label |-> "header", confidence |-> Conf(99)],
      [hit |-> IsForTheHeader(text), label |-> "header", confidence |-> Conf(97)],
      [hit |-> IsNoteColonHeader(text), label |-> "header", confidence |-> Conf(98)],
      [hit |-> IsKeywordColonHeader(text), label |-> "header", confidence |-> Conf(98)],
      [hit |-> IsShortColonHeader(text), label |-> "header", confidence |-> Conf(90)],
      [hit |-> IsNoteColonLine(text), label |-> "note", confidence |-> Conf(97)],
      [hit |-> IsNoteLeadLine(text), label |-> "note", confidence |-> Conf(95)],
      [hit |-> IsQuantityLed(text), label |-> "ingredient", confidence |-> Conf(95)],
      [hit |-> IsTimesLed(text), label |-> "ingredient", confidence |-> Conf(92)],
      [hit |-> IsActionLed(text), label |-> "step", confidence |-> Conf(92)],
      [hit |-> IsLongLine(text), label |-> "step", confidence |-> Conf(88)],
      [hit |-> HasIngredientHint(text), label |-> "ingredient", confidence |-> Conf(86)],
      [hit |-> LooksLikeTitle(text), label |-> "title", confidence |-> Conf(78)]>>

RuleHitsOnLine == [text \in TrackerLines |-> RuleHits(text)]

\* C15: what predict_with_confidence returns for a line is the label and
\* the fixed confidence of the earliest rule of rule_based_label that
\* matches the line, whatever the statistical scores give; it is the
\* statistical result only when no rule matches.
C15_FirstMatchingRuleWins ==
    tracker.row.text # "" =>
        LET hits == RuleHitsOnLine[tracker.row.text]
            matching == {i \in DOMAIN hits : hits[i].hit}
        IN  IF matching = {}
            THEN tracker.row.raw = tracker.row.statistical
            ELSE \E i \in matching :
                    /\ \A j \in matching : i <= j
                    /\ tracker.row.raw.label = hits[i].label
                    /\ tracker.row.raw.confidence = hits[i].confidence

\* A line that is quantity-led and has eight or more words, for which the
\* statistical scores give another label with a higher confidence, came back
\* from the classifier.
C15_Witness ==
    /\ tracker.row.text = "2 ripe avocados peeled pitted mashed with a fork"
    /\ IsQuantityLed(tracker.row.text) /\ IsLongLine(tracker.row.text)
    /\ tracker.row.statistical.label = "step"
    /\ tracker.row.statistical.confidence > tracker.row.raw.confidence
    /\ tracker.row.raw.label = "ingredient"

\* ---------------------------------------------------------------- C13

\* The last row went through run_predictions while the ingredients section
\* was active, and its text does not start with an action verb.
InIngredientsSection ==
    /\ tracker.fn = "run_predictions"
    /\ tracker.row.text # ""
    /\ tracker.current_section = "ingredients"
    /\ ~StartsWithAction(OnLine[tracker.row.text].normalized)

\* C13, as stated: inside an ingredients section, a line that the classifier
\* labelled step, title or junk and that does not start with an action verb
\* leaves run_predictions labelled ingredient.
C13_IngredientSectionPullsRawLabel ==
    InIngredientsSection /\ tracker.row.raw.label \in {"step", "title", "junk"}
        => tracker.row.predicted = "ingredient"

\* C13, amended: inside an ingredients section, a line that is labelled
\* step, title or junk once the note-header rule has run, and that does not
\* start with an action verb, leaves run_predictions labelled ingredient; a
\* line that follows a note-style line is labelled note by that earlier rule
\* and leaves as note.
C13_IngredientSectionPullsLabel ==
    /\ InIngredientsSection
           /\ tracker.row.after_note_rule \in {"step", "title", "junk"}
           => tracker.row.predicted = "ingredient"
    /\ InIngredientsSection
           /\ tracker.row.raw.label \in {"step", "title", "junk"}
           /\ OnLine[tracker.row.previous_line_text].note_header
           => tracker.row.predicted = "note"

\* Inside an ingredients section, a line without a leading action verb that
\* the classifier labelled junk left run_predictions as an ingredient.
C13_Witness ==
    /\ InIngredientsSection
    /\ tracker.row.text = "ripe avocados"
    /\ tracker.row.raw.label = "junk"
    /\ tracker.row.predicted = "ingredient"

\* ---------------------------------------------------------------- C19

\* C19, as stated: the confidence a pass outputs for a line is at least the
\* confidence the classifier returned for it, and at least the floor of
\* every override applied to the line.
C19_TrackerNeverLowersConfidence ==
    tracker.row.text # "" =>
        /\ tracker.row.confidence >= tracker.row.raw.confidence
        /\ \A floor \in tracker.row.floors : tracker.row.confidence >= floor

\* C19, amended: run_predictions outputs a confidence that is at least the
\* classifier's; Predictor.predict outputs that confidence rounded to four
\* decimals, so it is less than the classifier's by under 0.00005 at most;
\* in both passes the output is at least the floor of every override
\* applied to the line.
C19_TrackerKeepsConfidenceUpToRounding ==
    tracker.row.text # "" =>
        /\ tracker.fn = "run_predictions"
               => tracker.row.confidence >= tracker.row.raw.confidence
        /\ tracker.fn = "predict"
               => /\ tracker.row.confidence > tracker.row.raw.confidence - 5
                  /\ tracker.row.confidence % 10 = 0
        /\ \A floor \in tracker.row.floors : tracker.row.confidence >= floor

\* Predictor.predict overrode the label of a line that the classifier
\* returned with a confidence above the floor of the override.
C19_Witness ==
    /\ tracker.fn = "predict"
    /\ tracker.row.text # ""
    /\ tracker.row.predicted # tracker.row.raw.label
    /\ tracker.row.floors # {}
    /\ \A floor \in tracker.row.floors : tracker.row.raw.confidence > floor

\* ---------------------------------------------------------------- C20

\* The label of a section's lines.
SectionLabel(section) ==
    CASE section = "ingredients" -> "ingredient"
      [] section = "steps" -> "step"
      [] section = "notes" -> "note"
      [] OTHER -> "header"

\* C20: in run_predictions a header-labelled line whose text maps to a
\* section makes that section the current one; a header-labelled line that
\* maps to no section and does not end in ':' leaves with the label of the
\* active section, ingredient, step or note, and stays header when no
\* section is active.
C20_HeaderFollowsActiveSection ==
    /\ tracker.fn = "run_predictions"
    /\ tracker.row.text # ""
    /\ tracker.row.after_note_rule = "header"
    => IF OnLine[tracker.row.text].header_section # "none"
       THEN tracker.current_section = OnLine[tracker.row.text].header_section
       ELSE ~EndsWith(OnLine[tracker.row.text].normalized, ":")
                => tracker.row.predicted = SectionLabel(tracker.row.section_before)

\* ---------------------------------------------------------------- C21

\* run_predictions has output a row whose previous row, of the same
\* document, is a note-style line.
AfterNoteHeader ==
    /\ tracker.fn = "run_predictions"
    /\ tracker.row.text # ""
    /\ OnLine[tracker.row.previous_line_text].note_header

\* C21, as stated: in run_predictions a line whose previous line, of the
\* same document, is a note-style header is output with label note whatever
\* label the classifier returned, and the first line of a document has no
\* previous line.
C21_LineAfterNoteHeaderIsNote ==
    /\ AfterNoteHeader => tracker.row.predicted = "note"
    /\ tracker.fn = "run_predictions" /\ tracker.line_index = 0
           => tracker.row.previous_line_text = ""

\* C21, amended: in run_predictions a line whose previous line, of the same
\* document, is a note-style header is output with label note and a
\* confidence of 0.90 or more unless the classifier returned header for it;
\* a line that the classifier returned as header is never output as note;
\* the first line of a document has no previous line, so the rule does not
\* act on it, whatever the last line of the document before.
C21_LineAfterNoteHeaderIsNoteUnlessHeader ==
    /\ AfterNoteHeader /\ tracker.row.raw.label # "header"
           => /\ tracker.row.predicted = "note"
              /\ tracker.row.confidence >= Conf(90)
    /\ AfterNoteHeader /\ tracker.row.raw.label = "header"
           => tracker.row.predicted \in {"header", "step", "ingredient"}
    /\ tracker.fn = "run_predictions" /\ tracker.line_index = 0
           => /\ tracker.row.previous_line_text = ""
              /\ Conf(90) \notin tracker.row.floors

\* After "Notes:" a line that the classifier returned as an ingredient was
\* output as a note.
C21_Witness ==
    /\ AfterNoteHeader
    /\ tracker.line_index > 0
    /\ tracker.row.previous_line_text = "Notes:"
    /\ tracker.row.raw.label = "ingredient"
    /\ tracker.row.predicted = "note"

\* ---------------------------------------------------------------- C22

\* run_predictions has output the first row of a document.
FirstLineOut ==
    /\ tracker.fn = "run_predictions"
    /\ tracker.row.text # ""
    /\ tracker.line_index = 0

\* C22, as stated: the first line of a document leaves run_predictions with
\* label title and a confidence of 0.88 or more unless its text is a
\* section header.
C22_FirstLineIsTitle ==
    FirstLineOut /\ OnLine[tracker.row.text].header_section = "none"
        => /\ tracker.row.predicted = "title"
           /\ tracker.row.confidence >= Conf(88)

\* C22, amended: the first line of a document whose text is not a section
\* header leaves run_predictions with label title; its confidence is 0.88
\* or more when the classifier returned another label, and the classifier's
\* own confidence when the classifier returned title; no later override
\* rewrites the title. A first line whose text is a section header keeps
\* the classifier's label.
C22_FirstLineIsTitleAtOwnConfidence ==
    /\ FirstLineOut /\ OnLine[tracker.row.text].header_section = "none"
           => /\ tracker.row.predicted = "title"
              /\ tracker.row.after_note_rule = "title"
              /\ tracker.row.raw.label # "title"
                     => tracker.row.confidence >= Conf(88)
              /\ tracker.row.raw.label = "title"
                     => tracker.row.confidence = tracker.row.raw.confidence
    /\ FirstLineOut /\ OnLine[tracker.row.text].header_section # "none"
           => /\ tracker.row.predicted = tracker.row.raw.label
              /\ tracker.row.floors = {}

\* The first line of a document, which the classifier returned as a note
\* with confidence 0.4, was output as the title with confidence 0.88.
C22_Witness ==
    /\ FirstLineOut
    /\ tracker.row.text = "Topping"
    /\ tracker.row.raw = [label |-> "note", confidence |-> 40000]
    /\ tracker.row.predicted = "title"
    /\ tracker.row.confidence = Conf(88)

\* ---------------------------------------------------------------- C29

\* No thread is inside _append_metrics_history.
NoneAppending == \A h \in Handlers : appending[h].pc = "idle"

\* The history file holds the entry of the run with this id.
OnRecord(id) == \E i \in DOMAIN historyFile.runs : historyFile.runs[i].id = id

\* C29 as stated: once the runs of both threads have been recorded, the
\* entry of each of them is in the history file.
C29_BothEntriesKept ==
    (NoneAppending /\ \A h \in Handlers : runId[h] > 0)
        => \A h \in Handlers : OnRecord(runId[h])

\* ---------------------------------------------------------------- C28

\* A retrain run is in progress on handler h: it has taken its backups and
\* has not yet reached the reload or the rollback.
InRetrain(h) == pc[h] # "idle" /\ kind[h] = "retrain"

\* The retrain run on handler h has been answered.
RetrainAnswered(h) == Finished(h) /\ kind[h] = "retrain"

\* Until its reload step a retrain run leaves the live model as it was when
\* the run started, and so does a run that reports no reload.
LiveChangesOnlyAtReload ==
    \A h \in Handlers :
        /\ InRetrain(h) => live = pre[h].live
        /\ (RetrainAnswered(h) /\ ~resp[h].reloaded) => live = pre[h].live

BothRolledBack ==
    \A h \in Handlers : GateFailed(h) /\ resp[h].rolled_back

\* The handler whose run started first.
FirstStarted == CHOOSE h \in Handlers : \A g \in Handlers : runId[h] <= runId[g]

\* C27 as stated: once two retrain runs have both failed the gate and rolled
\* back, the model artifact is the model that was on disk before either
\* of them started.
C27_FailedRunsRestorePromoted ==
    BothRolledBack => artifactModel = pre[FirstStarted].model

\* ---------------------------------------------------------------- C26

\* The documents kept for evaluation by their id.
FixedHoldoutDocs == {doc_id \in dataset.docs : StartsWith(doc_id, HOLDOUT_DOC_PREFIX)}

\* C26: in a training run the documents whose id starts with holdout_ are
\* left out before the split, train_docs and holdout_docs are disjoint and
\* together are the documents loaded, and fit is given rows of train_docs
\* only; a case saved with save_kind holdout, ocr_failure or parse_failure
\* is saved under an id that starts with holdout_, the prefix being put
\* before the id unless the id starts with it.
C26_HoldoutNeverTrains ==
    /\ dataset.pc \in {"loaded", "split", "exited"}
           => dataset.rows = dataset.docs \ FixedHoldoutDocs
    /\ dataset.pc \in {"split", "exited"}
           => /\ dataset.split.train_docs \cap dataset.split.holdout_docs = {}
              /\ dataset.split.train_docs \cup dataset.split.holdout_docs = dataset.rows
    /\ dataset.fit_docs \subseteq dataset.split.train_docs
    /\ dataset.fit_docs \cap (dataset.split.holdout_docs \cup FixedHoldoutDocs) = {}
    /\ \A k \in 1..Len(dataset.saved) :
           dataset.saved[k].save_kind \in HOLDOUT_SAVE_KINDS
               => /\ StartsWith(dataset.saved[k].case_id, HOLDOUT_DOC_PREFIX)
                  /\ dataset.saved[k].case_id =
                         IF StartsWith(dataset.saved[k].id, HOLDOUT_DOC_PREFIX)
                         THEN dataset.saved[k].id
                         ELSE HOLDOUT_DOC_PREFIX \o dataset.saved[k].id

\* The classifier was fitted on a dataset that holds a case saved as
\* holdout under the id holdout_a, a case whose id already had the prefix,
\* and documents on both sides of the split.
C26_Witness ==
    /\ dataset.pc = "exited" /\ dataset.rc = 0
    /\ dataset.fit_docs # {}
    /\ dataset.split.holdout_docs # {}
    /\ Len(dataset.saved) = 2
    /\ dataset.saved[1] = [id |-> "a", source_type |-> "manual_edge",
                           save_kind |-> "holdout", case_id |-> "holdout_a"]
    /\ dataset.saved[2].id = "holdout_a"
    /\ dataset.saved[2].save_kind = "parse_failure"
    /\ dataset.saved[2].case_id = "holdout_a"

\* ------------------------------------------------- _assemble_app_recipe

\* The call of _assemble_app_recipe has returned.
Assembled == assembler.pc = "done"

\* ---------------------------------------------------------------- C30

\* The section names of the items, each once, in the order of the first
\* item of each.
RECURSIVE InOrderOfFirst(_)
InOrderOfFirst(sections) ==
    IF sections = <<>> THEN <<>>
    ELSE InOrderOfFirst(SubSeq(sections, 1, Len(sections) - 1))
             \o (IF \E k \in 1..(Len(sections) - 1) : sections[k] = sections[Len(sections)]
                 THEN <<>> ELSE <<sections[Len(sections)]>>)

\* The groups hold each of the items once, under the name of its section,
\* in the order of the first item of each section.
GroupedBySection(groups, sections, texts) ==
    /\ [g \in 1..Len(groups) |-> groups[g].name] = InOrderOfFirst(sections)
    /\ \A g \in 1..Len(groups) :
           groups[g].items =
               [i \in 1..Cardinality({k \in 1..Len(sections) : sections[k] = groups[g].name}) |->
                   texts[Ascending({k \in 1..Len(sections) :
                                      sections[k] = groups[g].name})[i]]]

\* C30: in the recipe returned, the index of each step is its position, the
\* groups of stepSections and ingredientSections hold each step and each
\* ingredient once, under the name of its section, in the order of the
\* first item of each section, and the two counts of stats are the lengths
\* of the lists.
C30_SectionsPartitionItems ==
    Assembled =>
        /\ \A i \in 1..Len(assembler.recipe.steps) : assembler.recipe.steps[i].index = i - 1
        /\ GroupedBySection(assembler.recipe.stepSections,
                            [k \in 1..Len(assembler.recipe.steps) |->
                                assembler.recipe.steps[k].section],
                            [k \in 1..Len(assembler.recipe.steps) |->
                                assembler.recipe.steps[k].text])
        /\ GroupedBySection(assembler.recipe.ingredientSections,
                            [k \in 1..Len(assembler.recipe.ingredients) |->
                                assembler.recipe.ingredients[k].section],
                            [k \in 1..Len(assembler.recipe.ingredients) |->
                                assembler.recipe.ingredients[k].name])
        /\ assembler.recipe.stats.step_count = Len(assembler.recipe.steps)
        /\ assembler.recipe.stats.ingredient_count = Len(assembler.recipe.ingredients)

\* ---------------------------------------------------------------- C25

\* The rows whose text is shaped like a title.
ShapedRows == {k \in 1..Len(assembler.rows) : assembler.on_line[assembler.rows[k].text].recipe_title}

\* The rows labelled title.
TitleRows == {k \in 1..Len(assembler.rows) : assembler.rows[k].label = "title"}

\* The rows that the loop passes on to its title branch: those that are
\* not metadata, OCR artifacts or tips lines.
PassedOn ==
    {k \in 1..Len(assembler.rows) :
        \A on \in {assembler.on_line[assembler.rows[k].text]} :
            on.metadata = NoMetadata /\ ~on.artifact /\ on.tips = <<>>}

\* The notes collected by the loop that are shaped like a title.
ShapedNotes ==
    {k \in 1..Len(assembler.notes) : IsRecipeTitle(assembler.on_text, assembler.notes[k])}

\* The title that the order of the fallbacks gives when the title-labelled
\* rows that count are those of the set labelled.
TitleInOrder(labelled) ==
    IF labelled \cap ShapedRows # {}
    THEN assembler.on_line[assembler.rows[Ascending(labelled \cap ShapedRows)[1]].text].text
    ELSE IF ShapedRows # {}
    THEN assembler.on_line[assembler.rows[Ascending(ShapedRows)[1]].text].text
    ELSE IF ShapedNotes # {}
    THEN CleanText(assembler.on_text, assembler.notes[Ascending(ShapedNotes)[1]])
    ELSE "Untitled Recipe"

\* A title-labelled row that fails the shape check is not the title.
UnshapedIsNotTitle ==
    \A k \in TitleRows \ ShapedRows :
        assembler.recipe.title # assembler.on_line[assembler.rows[k].text].text

HasSequentialMarkers(on) ==
    /\ Len(on.step_numbers) >= 2
    /\ StepNumberAt(on.text, 1)
    /\ \A k \in 1..Len(on.step_numbers) : on.step_numbers[k] = k

\* C24: on the text of every row _split_numbered_steps returns one part for
\* each marker when the text holds two markers or more, the first at its
\* start, with the numbers 1, 2, 3 and so on, and the whole text as its one
\* part in every other case.
C24_SplitsOnlySequentialMarkers ==
    \A k \in 1..Len(assembler.rows) :
        \A on \in {assembler.on_line[assembler.rows[k].text]} :
            IF HasSequentialMarkers(on)
            THEN Len(on.parts) = Len(on.step_numbers)
            ELSE on.parts = <<on.text>>

\* ---------------------------------------------------------------- C23

\* The rows that _extract_metadata_line recognises.
MetadataRows(rows) ==
    {k \in 1..Len(rows) : OnRecipeLine[rows[k].text].metadata # NoMetadata}

\* The loop takes a row that _extract_metadata_line recognises.
MetadataRowTaken ==
    /\ Len(assembler'.rows) = Len(assembler.rows) + 1
    /\ Len(assembler'.rows) \in MetadataRows(assembler'.rows)

\* What the loop collects but for the recipe-level fields.
Collected(st) ==
    <<st.title, st.ingredients, st.steps, st.notes, st.parsed_ingredient_count,
      st.current_section, st.current_ingredient_section, st.current_step_section>>

\* C23: a row that _extract_metadata_line recognises, whatever its label,
\* leaves the title, the ingredients, the steps, the notes, current_section
\* and the two subsection names as they were and sets the yields or minutes
\* it holds; in the recipe returned it is not the title, and no ingredient,
\* step or note comes from it.
C23_MetadataOnlySetsFields ==
    /\ [][MetadataRowTaken =>
             /\ Collected(assembler') = Collected(assembler)
             /\ assembler'.appended[Len(assembler'.rows)] = "none"
             /\ \A metadata \in {OnRecipeLine[assembler'.rows[Len(assembler'.rows)].text].metadata} :
                   /\ metadata.yields # <<>> => assembler'.extracted_yields = metadata.yields
                   /\ metadata.prep_minutes # NoMinutes
                          => assembler'.prep_minutes = metadata.prep_minutes
                   /\ metadata.cook_minutes # NoMinutes
                          => assembler'.cook_minutes = metadata.cook_minutes
                   /\ metadata.total_minutes # NoMinutes
                          => assembler'.total_minutes = metadata.total_minutes]_vars
    /\ [](Assembled =>
             \A k \in MetadataRows(assembler.rows) :
                 /\ assembler.recipe.title # OnRecipeLine[assembler.rows[k].text].text
                 /\ assembler.appended[k] = "none")

\* After the title a row "Serves 8" labelled ingredient was taken: the
\* yields are set, nothing was appended and no section was entered.
C23_Witness ==
    /\ assembler.pc = "rows"
    /\ Len(assembler.rows) >= 2
    /\ assembler.rows[Len(assembler.rows)] = [text |-> "Serves 8", label |-> "ingredient"]
    /\ assembler.rows[Len(assembler.rows) - 1].text = "Lemon Bars"
    /\ assembler.appended[Len(assembler.rows)] = "none"
    /\ assembler.extracted_yields = <<"8 servings">>
    /\ assembler.title = "Lemon Bars"
    /\ assembler.ingredients = <<>> /\ assembler.notes = <<>>
    /\ assembler.current_section = "unknown"

LemonBarsRows ==
    <<[text |-> "Lemon Bars", label |-> "title"],
      [text |-> "Ingredients:", label |-> "header"],
      [text |-> "2 cups sugar", label |-> "ingredient"],
      [text |-> "Instructions:", label |-> "header"],
      [text |-> "1. Mix well. 2. Bake for 20 minutes.", label |-> "step"]>>

\* The text parses to a quantity with a unit that parse_unit_token knows
\* and a name of one word.
HasQuantityUnitAndName(line) ==
    LET parsed == OnRecipeLine[line].parsed
    IN  /\ parsed.quantity # NoQuantity
        /\ parsed.quantity.unit # "whole"
        /\ Len(Words(parsed.name)) = 1

\* C11: the five Lemon Bars lines labelled title, header, ingredient,
\* header, step assemble to the title "Lemon Bars", the one ingredient
\* sugar with quantity 2 cup, two steps and the one timer of 1200 seconds
\* labelled Bake on the second step; and every row labelled ingredient whose
\* text has a parsed quantity, a recognised unit and a name of one word is
\* appended to the ingredients.
C11_LemonBarsAssembled ==
    /\ (Assembled /\ assembler.rows = LemonBarsRows) =>
          /\ assembler.recipe.title = "Lemon Bars"
          /\ Len(assembler.recipe.ingredients) = 1
          /\ assembler.recipe.ingredients[1].name = "sugar"
          /\ assembler.recipe.ingredients[1].quantity # NoQuantity
          /\ assembler.recipe.ingredients[1].quantity.value = 2 * 10000
          /\ assembler.recipe.ingredients[1].quantity.unit = "cup"
          /\ Len(assembler.recipe.steps) = 2
          /\ assembler.recipe.steps[1].timers = <<>>
          /\ assembler.recipe.steps[2].timers = <<[seconds |-> 1200, label |-> "Bake"]>>
    /\ \A k \in 1..Len(assembler.rows) :
          (/\ assembler.rows[k].label = "ingredient"
           /\ WrongRows(assembler.rows) = {}
           /\ HasQuantityUnitAndName(assembler.rows[k].text))
              => assembler.appended[k] = "ingredients"

\* No row and no note collected is shaped like a title.
NothingQualifies ==
    /\ \A k \in 1..Len(assembler.rows) : ~OnRecipeLine[assembler.rows[k].text].recipe_title
    /\ \A k \in 1..Len(assembler.notes) : ~IsRecipeTitle(OnRecipeText, assembler.notes[k])

NoYieldLine ==
    \A k \in 1..Len(assembler.rows) :
        OnRecipeLine[assembler.rows[k].text].metadata.yields = <<>>

\* C12: whatever the rows, the recipe returned has a title that is not
\* empty, "Untitled Recipe" when no line qualifies, and yields that are not
\* empty, "4 servings" when no yield line was recognised.
C12_TitleAndYieldsNeverEmpty ==
    Assembled =>
        /\ assembler.recipe.title # ""
        /\ assembler.recipe.yields # ""
        /\ NothingQualifies => assembler.recipe.title = "Untitled Recipe"
        /\ NoYieldLine => assembler.recipe.yields = "4 servings"

\* Rows that are all junk, none of them shaped like a title or a yield
\* line, have been assembled to the recipe of the two defaults.
C12_Witness ==
    /\ Assembled
    /\ Len(assembler.rows) >= 2
    /\ \A k \in 1..Len(assembler.rows) : assembler.rows[k].label = "junk"
    /\ NothingQualifies
    /\ NoYieldLine
    /\ assembler.recipe.title = "Untitled Recipe"
    /\ assembler.recipe.yields = "4 servings"

\* The rows with the label a classifier that makes no error gives each.
RightRows(rows) ==
    [k \in 1..Len(rows) |-> [text |-> rows[k].text, label |-> RightLabel(rows[k].text)]]

\* Where the loop appends each of the rows.
RECURSIVE AppendedBy(_, _, _)
AppendedBy(st, rows, k) ==
    IF k > Len(rows) THEN <<>>
    ELSE <<AppendedTo(st, assemble_row(st, rows[k]))>>
             \o AppendedBy(assemble_row(st, rows[k]), rows, k + 1)

\* The list that the shape of a text implies: ingredients for a line led
\* by a quantity, steps for one led by an instruction verb, notes for a
\* note fragment.
ShapeImplies(line, list) ==
    LET on == OnRecipeLine[line]
    IN  /\ on.ingredient_line => list = "ingredients"
        /\ on.headerless_instruction => list = "steps"
        /\ on.note_fragment /\ ~on.ingredient_line /\ ~on.headerless_instruction
              => list = "notes"

\* C18: when one row has a wrong label, the wrong label and the right one
\* both among ingredient, step and note, that row is appended to the list
\* its shape implies and every other row to the list it is appended to when
\* every label is right.
C18_OneWrongLabelKeepsSections ==
    \A k \in WrongRows(assembler.rows) :
        (/\ WrongRows(assembler.rows) = {k}
         /\ assembler.rows[k].label \in {"ingredient", "step", "note"}
         /\ RightLabel(assembler.rows[k].text) \in {"ingredient", "step", "note"})
            => /\ ShapeImplies(assembler.rows[k].text, assembler.appended[k])
               /\ \A j \in 1..Len(assembler.rows) :
                     j # k => assembler.appended[j]
                                  = AppendedBy(AssemblerStart, RightRows(assembler.rows), 1)[j]


====
